---- MODULE Spec2Model ----
(***************************************************************************)
(* Verification model of farm-maps-core.                                   *)
(*                                                                         *)
(*   - utils/layerUtils.ts   : searchAcrossLayers, getSearchSuggestions    *)
(*   - FeatureSearchPanel    : globalSearchResults (combined search)       *)
(*   - utils/colorPalette.ts : the layer colour assignment table           *)
(*   - utils/layerUtils.ts   : validateLayer, mergeLayers,                 *)
(*                             getLayerFeatureNames, filterLayerFeatures   *)
(*   - hooks/useMapLayers    : the layer registry of a component           *)
(*                                                                         *)
(* JavaScript strings are sequences of one-character strings, so that      *)
(* toLowerCase, includes, slice and trim are computed, not assumed.        *)
(* JavaScript values are tagged records: Undefined, Str(s) or Num(n).      *)
(***************************************************************************)
EXTENDS Integers, Sequences, FiniteSets, TLC

VARIABLES
    searchLayers,    \* the layers handed to the search operations
    call,            \* the search operation that ran, its arguments, its outcome
    assignedColors,  \* colorPalette.ts: the module-level Map layerId -> color
    lastGet,         \* the latest getLayerColor call since the last reset
    ret,             \* the latest colour operation and what it returned
    utilCall,        \* the layerUtils function that ran, its arguments, its outcome
    hookLayers,      \* useMapLayers: the layers state, with every queued update applied
    hookActive,      \* useMapLayers: the activeLayer state, likewise
    capLayers,       \* the layers value the callbacks of the last render closed over
    capActive,       \* the activeLayer value the callbacks of the last render closed over
    deferred,        \* setActiveLayer calls of updaters that run at the next render
    batch,           \* the number of calls made since the last render
    hookRet,         \* the latest useMapLayers call and what it returned
    par,             \* getLayerColor run by two threads: the table and each thread's progress
    store,           \* store/mapSlice: the state of the feature store
    upload,          \* UploadGISLayer: the state of the upload dialog and its pending work
    mapView,         \* MapView: the map initialisation effect, its timer and mapLoaded
    geomCall         \* the geometry function that ran, its argument, its outcome

searchVars == <<searchLayers, call>>

colorVars == <<assignedColors, lastGet, ret>>

utilVars == <<utilCall>>

hookVars == <<hookLayers, hookActive, capLayers, capActive, deferred, batch, hookRet>>

\* The variables of the search, colour table, layerUtils and registry models.
oldVars == <<searchVars, colorVars, utilVars, hookVars>>

\* The variables of the other models.
restVars == <<par, store, upload, mapView, geomCall>>

vars == <<searchLayers, call, assignedColors, lastGet, ret, utilCall, hookLayers, hookActive, capLayers, capActive, deferred, batch, hookRet, par, store, upload, mapView, geomCall>>

----------------------------------------------------------------------------
(* JavaScript values and string primitives                                 *)

Undefined == [t |-> "undefined"]

Str(s) == [t |-> "string", s |-> s]

Num(n) == [t |-> "number", n |-> n]

\* JavaScript truthiness of a value: undefined, "" and 0 are falsy, an object
\* is truthy.
Truthy(v) ==
    \/ v.t = "string" /\ Len(v.s) > 0
    \/ v.t = "number" /\ v.n # 0
    \/ v.t = "object"

\* a || b
OrElse(a, b) == IF Truthy(a) THEN a ELSE b

UpperChars == <<"A", "B", "C", "D", "E", "F", "G", "H", "I", "J", "K", "L", "M", "N", "O", "P", "Q", "R", "S", "T", "U", "V", "W", "X", "Y", "Z">>

LowerChars == <<"a", "b", "c", "d", "e", "f", "g", "h", "i", "j", "k", "l", "m", "n", "o", "p", "q", "r", "s", "t", "u", "v", "w", "x", "y", "z">>

LowerChar(c) ==
    IF \E i \in 1..Len(UpperChars) : UpperChars[i] = c
    THEN LowerChars[CHOOSE i \in 1..Len(UpperChars) : UpperChars[i] = c]
    ELSE c

\* String.prototype.toLowerCase
toLowerCase(s) == [i \in 1..Len(s) |-> LowerChar(s[i])]

\* String.prototype.includes
includes(s, sub) ==
    \E i \in 0..(Len(s) - Len(sub)) : SubSeq(s, i + 1, i + Len(sub)) = sub

WhiteSpace == {" ", "\t", "\n"}

RECURSIVE trimStart(_)
trimStart(s) ==
    IF Len(s) > 0 /\ Head(s) \in WhiteSpace THEN trimStart(Tail(s)) ELSE s

RECURSIVE trimEnd(_)
trimEnd(s) ==
    IF Len(s) > 0 /\ s[Len(s)] \in WhiteSpace
    THEN trimEnd(SubSeq(s, 1, Len(s) - 1))
    ELSE s

\* String.prototype.trim
trim(s) == trimEnd(trimStart(s))

\* s.slice(0, n) for n >= 0
slicePrefix(s, n) == SubSeq(s, 1, IF n < Len(s) THEN n ELSE Len(s))

\* Mutant of arraySlice: the end index is taken inclusively.
arraySliceInclusive(arr, end) ==
    SubSeq(arr, 1, IF end + 1 < Len(arr) THEN end + 1 ELSE Len(arr))

\* Array.prototype.slice(0, end) for an integer end: a negative end counts
\* from the end of the array.
arraySlice(arr, end) ==
    LET stop == IF end < 0
                THEN (IF Len(arr) + end < 0 THEN 0 ELSE Len(arr) + end)
                ELSE (IF end < Len(arr) THEN end ELSE Len(arr))
    IN SubSeq(arr, 1, stop)

----------------------------------------------------------------------------
(* Layers and features (types/index.ts: MapLayer, GeoJSONFeature)          *)

\* feature.properties is either null or a property bag (a record).
NullProps == [null |-> TRUE, map |-> [none |-> Undefined]]

Props(m) == [null |-> FALSE, map |-> m]

Feature(props, id) == [properties |-> props, id |-> id]

\* feature.properties?.[key]
Prop(feature, key) ==
    IF feature.properties.null \/ key \notin DOMAIN feature.properties.map
    THEN Undefined
    ELSE feature.properties.map[key]

\* layer.data.features is an array, is missing, or is some other truthy
\* value that is not an array: a plain object.
FeatureArray(items) == [kind |-> "array", items |-> items]

FeaturesMissing == [kind |-> "undefined", items |-> <<>>]

FeaturesNotArray == [kind |-> "object", items |-> <<>>]

Layer(id, name, nameProperty, features) ==
    [id |-> id, name |-> name, nameProperty |-> nameProperty,
     data |-> [type |-> "FeatureCollection", features |-> features]]

\* !layer.data?.features
HasFeatures(layer) == layer.data.features.kind # "undefined"

UnnamedFeature == <<"U", "n", "n", "a", "m", "e", "d", " ", "F", "e", "a", "t", "u", "r", "e">>

\* The value a const holds: the characters of a string, or the number itself.
Held(v) == IF v.t = "string" THEN v.s ELSE v

\* feature.properties?.[layer.nameProperty] || 'Unnamed Feature', as a value
FeatureNameValue(layer, feature) ==
    OrElse(Prop(feature, layer.nameProperty), Str(UnnamedFeature))

\* feature.properties?.objectid || feature.properties?.id || feature.id || '',
\* as a value
FeatureIdValue(feature) ==
    OrElse(OrElse(OrElse(Prop(feature, "objectid"), Prop(feature, "id")),
                  feature.id),
           Str(<<>>))

\* const featureName of the search loop
ResolveFeatureName(layer, feature) == Held(FeatureNameValue(layer, feature))

\* const featureId of the search loop
ResolveFeatureId(feature) == Held(FeatureIdValue(feature))

----------------------------------------------------------------------------
(* searchAcrossLayers                                                      *)

DefaultMaxResults == 100

\* A destructured option with its default value.
Opt(searchOptions, key, default) ==
    IF key \in DOMAIN searchOptions THEN searchOptions[key] ELSE default

NoMatch == [matched |-> FALSE, matchType |-> "contains", relevance |-> 0]

Match(matchType, relevance) ==
    [matched |-> TRUE, matchType |-> matchType, relevance |-> relevance]

\* The three tests of one candidate string against the query.
Bands(candidate, query, fuzzyMatch, exact, contains, fuzzy) ==
    IF candidate = query THEN Match("exact", exact)
    ELSE IF includes(candidate, query) THEN Match("contains", contains)
    ELSE IF fuzzyMatch /\ includes(candidate, slicePrefix(query, 3))
         THEN Match("fuzzy", fuzzy)
    ELSE NoMatch

\* Mutant of LayerMatch: the prefix test is not guarded by fuzzyMatch.
LayerMatchUnguardedFuzzy(layer, query, fuzzyMatch, caseSensitive) ==
    LET layerName == IF caseSensitive THEN layer.name ELSE toLowerCase(layer.name)
        layerId == IF caseSensitive THEN layer.id ELSE toLowerCase(layer.id)
    IN IF layerName = query \/ layerId = query THEN Match("exact", 100)
       ELSE IF includes(layerName, query) \/ includes(layerId, query)
            THEN Match("contains", 50)
       ELSE IF includes(layerName, slicePrefix(query, 3))
               \/ includes(layerId, slicePrefix(query, 3))
            THEN Match("fuzzy", 25)
       ELSE NoMatch

\* Mutant of LayerMatch: the containment band is 5 instead of 50.
LayerMatchLowContains(layer, query, fuzzyMatch, caseSensitive) ==
    LET layerName == IF caseSensitive THEN layer.name ELSE toLowerCase(layer.name)
        layerId == IF caseSensitive THEN layer.id ELSE toLowerCase(layer.id)
    IN IF layerName = query \/ layerId = query THEN Match("exact", 100)
       ELSE IF includes(layerName, query) \/ includes(layerId, query)
            THEN Match("contains", 5)
       ELSE IF fuzzyMatch /\ (includes(layerName, slicePrefix(query, 3))
                              \/ includes(layerId, slicePrefix(query, 3)))
            THEN Match("fuzzy", 25)
       ELSE NoMatch

LayerMatch(layer, query, fuzzyMatch, caseSensitive) ==
    LET layerName == IF caseSensitive THEN layer.name ELSE toLowerCase(layer.name)
        layerId == IF caseSensitive THEN layer.id ELSE toLowerCase(layer.id)
    IN IF layerName = query \/ layerId = query THEN Match("exact", 100)
       ELSE IF includes(layerName, query) \/ includes(layerId, query)
            THEN Match("contains", 50)
       ELSE IF fuzzyMatch /\ (includes(layerName, slicePrefix(query, 3))
                              \/ includes(layerId, slicePrefix(query, 3)))
            THEN Match("fuzzy", 25)
       ELSE NoMatch

FeatureMatch(layer, feature, query, includeFeatureNames, includeFeatureIds, fuzzyMatch, caseSensitive) ==
    LET featureName == ResolveFeatureName(layer, feature)
        featureId == ResolveFeatureId(feature)
        name == IF caseSensitive THEN featureName ELSE toLowerCase(featureName)
        id == IF caseSensitive THEN featureId ELSE toLowerCase(featureId)
        byName == IF includeFeatureNames
                  THEN Bands(name, query, fuzzyMatch, 90, 40, 20)
                  ELSE NoMatch
    IN IF includeFeatureIds /\ ~byName.matched
       THEN Bands(id, query, fuzzyMatch, 80, 30, 15)
       ELSE byName

\* results.push of the layer loop: li stands for the reference to the layer.
LayerResult(layers, li, m) ==
    [type |-> "layer", li |-> li, fi |-> 0,
     name |-> layers[li].name, id |-> layers[li].id,
     relevance |-> m.relevance, matchType |-> m.matchType]

\* results.push of the feature loop: (li, fi) stands for the references to
\* the owning layer and to the feature.
FeatureResult(layers, li, fi, m) ==
    [type |-> "feature", li |-> li, fi |-> fi,
     name |-> ResolveFeatureName(layers[li], layers[li].data.features.items[fi]),
     id |-> ResolveFeatureId(layers[li].data.features.items[fi]),
     relevance |-> m.relevance, matchType |-> m.matchType]

\* Mutant of LayerResults: the name and the id of a layer are tested one
\* after the other and each match pushes a result.
RECURSIVE LayerResultsPerField(_, _, _, _, _)
LayerResultsPerField(layers, li, query, fuzzyMatch, caseSensitive) ==
    IF li > Len(layers) THEN <<>>
    ELSE LET n == IF caseSensitive THEN layers[li].name
                  ELSE toLowerCase(layers[li].name)
             i == IF caseSensitive THEN layers[li].id
                  ELSE toLowerCase(layers[li].id)
             byName == Bands(n, query, fuzzyMatch, 100, 50, 25)
             byId == Bands(i, query, fuzzyMatch, 100, 50, 25)
         IN (IF byName.matched THEN <<LayerResult(layers, li, byName)>> ELSE <<>>)
            \o (IF byId.matched THEN <<LayerResult(layers, li, byId)>> ELSE <<>>)
            \o LayerResultsPerField(layers, li + 1, query, fuzzyMatch, caseSensitive)

RECURSIVE LayerResults(_, _, _, _, _)
LayerResults(layers, li, query, fuzzyMatch, caseSensitive) ==
    IF li > Len(layers) THEN <<>>
    ELSE LET m == LayerMatch(layers[li], query, fuzzyMatch, caseSensitive)
         IN (IF m.relevance > 0 THEN <<LayerResult(layers, li, m)>> ELSE <<>>)
            \o LayerResults(layers, li + 1, query, fuzzyMatch, caseSensitive)

\* The indices 1..n as a sequence, for the forEach loops.
Indices(n) == [i \in 1..n |-> i]

\* layer.data.features.forEach of the feature loop: the features that
\* matched, in feature order.
FeatureResultsOfLayer(layers, li, query, includeFeatureNames, includeFeatureIds, fuzzyMatch, caseSensitive) ==
    LET items == layers[li].data.features.items
        m(fi) == FeatureMatch(layers[li], items[fi], query, includeFeatureNames,
                              includeFeatureIds, fuzzyMatch, caseSensitive)
        hits == SelectSeq(Indices(Len(items)), LAMBDA fi : m(fi).matched)
    IN [k \in 1..Len(hits) |-> FeatureResult(layers, li, hits[k], m(hits[k]))]

RECURSIVE FeatureResults(_, _, _, _, _, _, _)
FeatureResults(layers, li, query, includeFeatureNames, includeFeatureIds, fuzzyMatch, caseSensitive) ==
    IF li > Len(layers) THEN <<>>
    ELSE (IF HasFeatures(layers[li])
          THEN FeatureResultsOfLayer(layers, li, query, includeFeatureNames,
                                     includeFeatureIds, fuzzyMatch, caseSensitive)
          ELSE <<>>)
         \o FeatureResults(layers, li + 1, query, includeFeatureNames,
                           includeFeatureIds, fuzzyMatch, caseSensitive)

\* The elements of results in descending order of relevance, elements of
\* equal relevance in their order in results.
RECURSIVE SortDescending(_, _)
SortDescending(results, relevances) ==
    IF relevances = {} THEN <<>>
    ELSE LET top == CHOOSE r \in relevances : \A o \in relevances : o <= r
         IN SelectSeq(results, LAMBDA x : x.relevance = top)
            \o SortDescending(results, relevances \ {top})

\* Mutant of sortByRelevance: elements of equal relevance come out in
\* reverse order (an unstable sort).
sortByRelevanceUnstable(results) ==
    LET reversed == [i \in 1..Len(results) |-> results[Len(results) + 1 - i]]
    IN SortDescending(reversed, {results[i].relevance : i \in 1..Len(results)})

\* results.sort((a, b) => b.relevance - a.relevance): Array.prototype.sort
\* is a stable sort (ECMAScript 2019).
sortByRelevance(results) ==
    SortDescending(results, {results[i].relevance : i \in 1..Len(results)})

Returned(value) == [status |-> "ok", value |-> value]

\* layer.data.features.forEach is not a function
TypeError == [status |-> "TypeError", value |-> <<>>]

\* The feature loop calls forEach on whatever truthy value features holds.
FeatureLoopThrows(layers) ==
    \E li \in 1..Len(layers) : layers[li].data.features.kind = "object"

\* A number has neither toLowerCase nor includes: the name check calls one of
\* them on featureName, and the id check, entered when the name did not
\* match, calls one of them on featureId.
FeatureThrows(layer, feature, query, includeFeatureNames, includeFeatureIds, fuzzyMatch, caseSensitive) ==
    LET featureName == FeatureNameValue(layer, feature)
        featureId == FeatureIdValue(feature)
        matched == /\ includeFeatureNames
                   /\ Bands(IF caseSensitive THEN featureName.s
                                              ELSE toLowerCase(featureName.s),
                            query, fuzzyMatch, 90, 40, 20).matched
    IN \/ includeFeatureNames /\ featureName.t = "number"
       \/ includeFeatureIds /\ ~matched /\ featureId.t = "number"

\* The feature loop of searchAcrossLayers raises a TypeError.
SearchLoopThrows(layers, query, includeFeatureNames, includeFeatureIds, fuzzyMatch, caseSensitive) ==
    \/ FeatureLoopThrows(layers)
    \/ \E li \in 1..Len(layers) :
          /\ HasFeatures(layers[li])
          /\ \E fi \in 1..Len(layers[li].data.features.items) :
                FeatureThrows(layers[li], layers[li].data.features.items[fi],
                              query, includeFeatureNames, includeFeatureIds,
                              fuzzyMatch, caseSensitive)

\* The feature loop of getSearchSuggestions raises a TypeError: a truthy
\* number as featureName has no toLowerCase.
SuggestionLoopThrows(layers) ==
    \/ FeatureLoopThrows(layers)
    \/ \E li \in 1..Len(layers) :
          /\ HasFeatures(layers[li])
          /\ \E fi \in 1..Len(layers[li].data.features.items) :
                LET featureName == Prop(layers[li].data.features.items[fi],
                                        layers[li].nameProperty)
                IN Truthy(featureName) /\ featureName.t # "string"

searchAcrossLayers(layers, searchQuery, searchOptions) ==
    LET includeLayerNames == Opt(searchOptions, "includeLayerNames", TRUE)
        includeFeatureNames == Opt(searchOptions, "includeFeatureNames", TRUE)
        includeFeatureIds == Opt(searchOptions, "includeFeatureIds", TRUE)
        fuzzyMatch == Opt(searchOptions, "fuzzyMatch", FALSE)
        caseSensitive == Opt(searchOptions, "caseSensitive", FALSE)
        maxResults == Opt(searchOptions, "maxResults", DefaultMaxResults)
        query == IF caseSensitive THEN searchQuery ELSE toLowerCase(searchQuery)
        layerPart == IF includeLayerNames
                     THEN LayerResults(layers, 1, query, fuzzyMatch, caseSensitive)
                     ELSE <<>>
        featurePart == IF includeFeatureNames \/ includeFeatureIds
                       THEN FeatureResults(layers, 1, query, includeFeatureNames,
                                           includeFeatureIds, fuzzyMatch,
                                           caseSensitive)
                       ELSE <<>>
    IN IF Len(trim(searchQuery)) = 0 THEN Returned(<<>>)
       ELSE IF /\ includeFeatureNames \/ includeFeatureIds
               /\ SearchLoopThrows(layers, query, includeFeatureNames,
                                   includeFeatureIds, fuzzyMatch, caseSensitive)
            THEN TypeError
       ELSE Returned(arraySlice(sortByRelevance(layerPart \o featurePart),
                                maxResults))

----------------------------------------------------------------------------
(* FeatureSearchPanel.globalSearchResults                                  *)

GlobalSearchMaxResults == 50

GlobalSearchOptions ==
    [includeLayerNames |-> TRUE, includeFeatureNames |-> TRUE,
     includeFeatureIds |-> TRUE, fuzzyMatch |-> TRUE, caseSensitive |-> FALSE,
     maxResults |-> GlobalSearchMaxResults]

globalSearchResults(layers, searchQuery, searchType) ==
    IF Len(trim(searchQuery)) = 0 \/ searchType # "all" THEN Returned(<<>>)
    ELSE searchAcrossLayers(layers, searchQuery, GlobalSearchOptions)

----------------------------------------------------------------------------
(* getSearchSuggestions                                                    *)

DefaultMaxSuggestions == 10

\* Mutant of SetAdd: suggestions is an array and add is push.
SetAddAsPush(suggestions, x) == Append(suggestions, x)

\* Set.prototype.add on an insertion-ordered Set<string>
SetAdd(suggestions, x) ==
    IF \E i \in 1..Len(suggestions) : suggestions[i] = x
    THEN suggestions
    ELSE Append(suggestions, x)

RECURSIVE LayerSuggestions(_, _, _, _)
LayerSuggestions(layers, li, query, suggestions) ==
    IF li > Len(layers) THEN suggestions
    ELSE LET withName == IF includes(toLowerCase(layers[li].name), query)
                         THEN SetAdd(suggestions, layers[li].name)
                         ELSE suggestions
             withId == IF includes(toLowerCase(layers[li].id), query)
                       THEN SetAdd(withName, layers[li].id)
                       ELSE withName
         IN LayerSuggestions(layers, li + 1, query, withId)

\* layer.data.features.forEach of the suggestion loop over the features
\* lo..hi, in feature order.
RECURSIVE FeatureSuggestionsOfLayer(_, _, _, _, _)
FeatureSuggestionsOfLayer(layer, lo, hi, query, suggestions) ==
    IF lo > hi THEN suggestions
    ELSE IF lo = hi
         THEN LET featureName == Prop(layer.data.features.items[lo],
                                      layer.nameProperty)
              IN IF Truthy(featureName)
                    /\ includes(toLowerCase(featureName.s), query)
                 THEN SetAdd(suggestions, featureName.s)
                 ELSE suggestions
    ELSE LET mid == (lo + hi) \div 2
             first == FeatureSuggestionsOfLayer(layer, lo, mid, query, suggestions)
         IN FeatureSuggestionsOfLayer(layer, mid + 1, hi, query, first)

RECURSIVE FeatureSuggestions(_, _, _, _)
FeatureSuggestions(layers, li, query, suggestions) ==
    IF li > Len(layers) THEN suggestions
    ELSE FeatureSuggestions(layers, li + 1, query,
             IF HasFeatures(layers[li])
             THEN FeatureSuggestionsOfLayer(layers[li], 1,
                                            Len(layers[li].data.features.items),
                                            query, suggestions)
             ELSE suggestions)

\* maxSuggestions is an integer, or Undefined for the default.
getSearchSuggestions(layers, partialQuery, maxSuggestions) ==
    LET limit == IF maxSuggestions = Undefined THEN DefaultMaxSuggestions
                 ELSE maxSuggestions.n
        query == toLowerCase(partialQuery)
    IN IF Len(trim(partialQuery)) = 0 \/ Len(partialQuery) < 2 THEN Returned(<<>>)
       ELSE IF SuggestionLoopThrows(layers) THEN TypeError
       ELSE Returned(arraySlice(
                FeatureSuggestions(layers, 1, query,
                                   LayerSuggestions(layers, 1, query, <<>>)),
                limit))

----------------------------------------------------------------------------
(* Inputs of the search operations                                         *)

MaxLayers == 2

MaxLimit == 2

BigLen == 101

s_abcd == <<"a", "b", "c", "d">>

s_Abcd == <<"A", "b", "c", "d">>

s_xabcd == <<"x", "a", "b", "c", "d">>

s_zabcd == <<"z", "a", "b", "c", "d">>

s_xabcdx == <<"x", "a", "b", "c", "d", "x">>

s_xAbcdx == <<"x", "A", "b", "c", "d", "x">>

s_abcx == <<"a", "b", "c", "x">>

s_abcz == <<"a", "b", "c", "z">>

s_zabc == <<"z", "a", "b", "c">>

s_zz == <<"z", "z">>

s_ab == <<"a", "b">>

s_AB == <<"A", "B">>

s_a__b == <<"a", " ", " ", "b">>

s_k1 == <<"k", "1">>

s_k2 == <<"k", "2">>

s_k3 == <<"k", "3">>

s_k4 == <<"k", "4">>

s_k5 == <<"k", "5">>

s_big == <<"b", "i", "g">>

PoolLayer1 ==
    Layer(s_abcd, s_xAbcdx, "name", FeatureArray(<<
        Feature(Props([name |-> Str(s_abcd), objectid |-> Str(s_k1)]), Undefined),
        Feature(Props([name |-> Str(s_xabcdx), id |-> Str(s_abcd)]), Undefined),
        Feature(Props([name |-> Str(s_xAbcdx), objectid |-> Str(s_k2)]), Str(s_abcd))>>))

PoolLayer2 ==
    Layer(s_zabc, s_zz, "label", FeatureArray(<<
        Feature(Props([label |-> Str(s_abcx), objectid |-> Str(s_abcd)]), Undefined),
        Feature(Props([name |-> Str(s_abcd)]), Str(s_abcd)),
        Feature(Props([label |-> Str(s_zz), id |-> Str(s_xabcd)]), Undefined),
        Feature(Props([label |-> Str(s_zz), objectid |-> Str(s_abcz)]), Undefined)>>))

PoolLayer3 == Layer(s_k3, s_Abcd, "name", FeaturesMissing)

PoolLayer4 ==
    Layer(s_k4, s_abcx, "name", FeatureArray(<<Feature(NullProps, Str(s_zabcd))>>))

PoolLayer5 == Layer(s_k5, s_abcd, "name", FeaturesNotArray)

PoolLayer6 ==
    Layer(s_ab, s_a__b, "name", FeatureArray(<<
        Feature(Props([name |-> Str(s_ab)]), Undefined),
        Feature(Props([name |-> Str(<<>>)]), Str(s_AB))>>))

LayerPool == {PoolLayer1, PoolLayer2, PoolLayer3, PoolLayer4, PoolLayer5, PoolLayer6}

\* The fixture of the FeatureSearchPanel test suite.
s_boundary_ahupuaa_layer == <<"b", "o", "u", "n", "d", "a", "r", "y", "_", "a", "h", "u", "p", "u", "a", "a", "_", "l", "a", "y", "e", "r">>

s_Ahupuaa_Boundaries == <<"A", "h", "u", "p", "u", "a", "a", " ", "B", "o", "u", "n", "d", "a", "r", "i", "e", "s">>

s_Test_Ahupuaa_1 == <<"T", "e", "s", "t", " ", "A", "h", "u", "p", "u", "a", "a", " ", "1">>

s_Test_Ahupuaa_2 == <<"T", "e", "s", "t", " ", "A", "h", "u", "p", "u", "a", "a", " ", "2">>

s_complex_area_school_layer == <<"c", "o", "m", "p", "l", "e", "x", "_", "a", "r", "e", "a", "_", "s", "c", "h", "o", "o", "l", "_", "l", "a", "y", "e", "r">>

s_School_Complex_Areas == <<"S", "c", "h", "o", "o", "l", " ", "C", "o", "m", "p", "l", "e", "x", " ", "A", "r", "e", "a", "s">>

s_Test_School_Complex == <<"T", "e", "s", "t", " ", "S", "c", "h", "o", "o", "l", " ", "C", "o", "m", "p", "l", "e", "x">>

s_Ahupuaa == <<"A", "h", "u", "p", "u", "a", "a">>

mockLayers ==
    <<Layer(s_boundary_ahupuaa_layer, s_Ahupuaa_Boundaries, "ahupuaa", FeatureArray(<<
          Feature(Props([ahupuaa |-> Str(s_Test_Ahupuaa_1), objectid |-> Str(<<"1">>)]),
                  Str(<<"1">>)),
          Feature(Props([ahupuaa |-> Str(s_Test_Ahupuaa_2), objectid |-> Str(<<"2">>)]),
                  Str(<<"2">>))>>)),
      Layer(s_complex_area_school_layer, s_School_Complex_Areas, "complex_area",
            FeatureArray(<<
          Feature(Props([complex_area |-> Str(s_Test_School_Complex),
                         objectid |-> Str(<<"3">>)]),
                  Str(<<"3">>))>>))>>

\* One layer with more features than any result limit: the features match
\* the query "abcd" alternately by containment and exactly.
BigLayers ==
    <<Layer(s_big, s_zz, "name", FeatureArray(
        [i \in 1..BigLen |->
            Feature(Props([name |-> Str(IF i % 2 = 0 THEN s_abcd ELSE s_xabcd)]),
                    Undefined)]))>>

\* A registry holds layers with distinct ids.
DistinctIds(ls) ==
    \A i, j \in 1..Len(ls) : i # j => ls[i].id # ls[j].id

PoolLayerSets ==
    UNION {{ls \in [1..n -> LayerPool] : DistinctIds(ls)} : n \in 0..MaxLayers}

\* Layers whose features carry a number where the search reads a string:
\* properties.objectid, properties.id, feature.id and the name property.
s_n1 == <<"n", "1">>
s_n2 == <<"n", "2">>
s_n3 == <<"n", "3">>

NumericIdLayer ==
    Layer(s_n1, s_zz, "name", FeatureArray(<<
        Feature(Props([name |-> Str(s_abcd), objectid |-> Num(7)]), Undefined),
        Feature(Props([name |-> Str(s_xabcd), id |-> Num(8)]), Undefined),
        Feature(Props([name |-> Str(s_Abcd)]), Num(9))>>))

NumericNameLayer ==
    Layer(s_n2, s_zz, "name", FeatureArray(<<
        Feature(Props([name |-> Num(5)]), Str(s_abcd))>>))

ZeroIdLayer ==
    Layer(s_n3, s_zz, "name", FeatureArray(<<
        Feature(Props([name |-> Str(s_zabcd), objectid |-> Num(0)]), Num(0)),
        Feature(Props([name |-> Num(0)]), Str(s_abcd))>>))

NumericLayerSets ==
    {<<NumericIdLayer>>, <<NumericNameLayer>>, <<ZeroIdLayer>>,
     <<PoolLayer1, NumericIdLayer>>}

LayerSets == PoolLayerSets \cup {mockLayers, BigLayers} \cup NumericLayerSets

Queries ==
    {<<>>, <<" ">>, <<" ", " ">>, <<"a">>, s_ab, s_abcd, s_Abcd, s_Ahupuaa}

EmptyOptions == [k \in {} |-> TRUE]

BoolOptions ==
    [includeLayerNames : BOOLEAN, includeFeatureNames : BOOLEAN,
     includeFeatureIds : BOOLEAN, fuzzyMatch : BOOLEAN, caseSensitive : BOOLEAN]

WithMaxResults(o, m) ==
    [k \in DOMAIN o \cup {"maxResults"} |-> IF k = "maxResults" THEN m ELSE o[k]]

SearchOptionSets ==
    {EmptyOptions} \cup BoolOptions
    \cup {WithMaxResults(o, m) : o \in BoolOptions, m \in 0..MaxLimit}

SearchTypes == {"layers", "features", "all"}

SuggestionLimits == {Undefined} \cup {Num(n) : n \in 0..MaxLimit}

----------------------------------------------------------------------------
(* State                                                                   *)

NoCall ==
    [op |-> "none", query |-> <<>>, options |-> EmptyOptions,
     searchType |-> "all", maxSuggestions |-> Undefined, result |-> Returned(<<>>)]

InitSearch ==
    /\ searchLayers \in LayerSets
    /\ call = NoCall

CallSearchAcrossLayers ==
    /\ call.op = "none"
    /\ \E q \in Queries, o \in SearchOptionSets :
          call' = [NoCall EXCEPT !.op = "searchAcrossLayers", !.query = q,
                                 !.options = o,
                                 !.result = searchAcrossLayers(searchLayers, q, o)]
    /\ UNCHANGED <<searchLayers, colorVars, utilVars, hookVars, restVars>>

CallGlobalSearchResults ==
    /\ call.op = "none"
    /\ \E q \in Queries, st \in SearchTypes :
          call' = [NoCall EXCEPT !.op = "globalSearchResults", !.query = q,
                                 !.options = GlobalSearchOptions,
                                 !.searchType = st,
                                 !.result = globalSearchResults(searchLayers, q, st)]
    /\ UNCHANGED <<searchLayers, colorVars, utilVars, hookVars, restVars>>

CallGetSearchSuggestions ==
    /\ call.op = "none"
    /\ \E q \in Queries, n \in SuggestionLimits :
          call' = [NoCall EXCEPT !.op = "getSearchSuggestions", !.query = q,
                                 !.maxSuggestions = n,
                                 !.result = getSearchSuggestions(searchLayers, q, n)]
    /\ UNCHANGED <<searchLayers, colorVars, utilVars, hookVars, restVars>>

NextSearch ==
    \/ CallSearchAcrossLayers
    \/ CallGlobalSearchResults
    \/ CallGetSearchSuggestions

----------------------------------------------------------------------------
(* utils/colorPalette.ts: the colour assignment table                      *)

LAYER_COLORS ==
    <<
      [color |-> "#FF6B35", name |-> "Orange", description |-> "WIC Locations"],
      [color |-> "#088", name |-> "Teal", description |-> "Ahupuaa Boundaries"],
      [color |-> "#800080", name |-> "Purple", description |-> "School Complex Areas"],
      [color |-> "#008000", name |-> "Green", description |-> "School Districts"],
      [color |-> "#6B46C1", name |-> "Violet", description |-> "GIS Layer Features"],
      [color |-> "#007cba", name |-> "Blue", description |-> "Drawn Features"],
      [color |-> "#DC2626", name |-> "Red", description |-> "Emergency Services"],
      [color |-> "#F59E0B", name |-> "Amber", description |-> "Transportation"],
      [color |-> "#10B981", name |-> "Emerald", description |-> "Parks & Recreation"],
      [color |-> "#8B5CF6", name |-> "Indigo", description |-> "Utilities"],
      [color |-> "#EF4444", name |-> "Rose", description |-> "Healthcare"],
      [color |-> "#06B6D4", name |-> "Cyan", description |-> "Water Features"],
      [color |-> "#84CC16", name |-> "Lime", description |-> "Agriculture"],
      [color |-> "#F97316", name |-> "Orange Red", description |-> "Commercial"],
      [color |-> "#EC4899", name |-> "Pink", description |-> "Residential"],
      [color |-> "#6366F1", name |-> "Blue Violet", description |-> "Government"],
      [color |-> "#14B8A6", name |-> "Teal Green", description |-> "Environmental"],
      [color |-> "#F59E0B", name |-> "Yellow", description |-> "Infrastructure"],
      [color |-> "#8B5A2B", name |-> "Brown", description |-> "Historical"],
      [color |-> "#6B7280", name |-> "Gray", description |-> "Other Features"]
    >>

\* LAYER_COLORS.find(c => c.color === color): the first entry of that colour,
\* or Undefined.
FindColor(color) ==
    IF \E i \in 1..Len(LAYER_COLORS) : LAYER_COLORS[i].color = color
    THEN LAYER_COLORS[CHOOSE i \in 1..Len(LAYER_COLORS) :
                         /\ LAYER_COLORS[i].color = color
                         /\ \A j \in 1..(i - 1) : LAYER_COLORS[j].color # color]
    ELSE Undefined

\* Array.from(assignedColors.values())
AssignedValues(assigned) == {assigned[id] : id \in DOMAIN assigned}

\* assignedColors.set(layerId, color)
MapSet(assigned, layerId, color) ==
    [id \in DOMAIN assigned \cup {layerId} |->
        IF id = layerId THEN color ELSE assigned[id]]

\* Mutant of getLayerColor: when the palette is used up the index is taken
\* from the table size after the insertion instead of before it.
getLayerColorWrapShifted(assigned, layerId) ==
    IF layerId \in DOMAIN assigned
    THEN [info |-> IF FindColor(assigned[layerId]) # Undefined
                   THEN FindColor(assigned[layerId])
                   ELSE LAYER_COLORS[1],
          assigned |-> assigned]
    ELSE IF \E i \in 1..Len(LAYER_COLORS) :
               LAYER_COLORS[i].color \notin AssignedValues(assigned)
    THEN LET first == CHOOSE i \in 1..Len(LAYER_COLORS) :
                         /\ LAYER_COLORS[i].color \notin AssignedValues(assigned)
                         /\ \A j \in 1..(i - 1) :
                               LAYER_COLORS[j].color \in AssignedValues(assigned)
         IN [info |-> LAYER_COLORS[first],
             assigned |-> MapSet(assigned, layerId, LAYER_COLORS[first].color)]
    ELSE LET index == (Cardinality(DOMAIN assigned) + 1) % Len(LAYER_COLORS)
         IN [info |-> LAYER_COLORS[index + 1],
             assigned |-> MapSet(assigned, layerId, LAYER_COLORS[index + 1].color)]

\* Mutant of getLayerColor: the lookup of an existing assignment is missing,
\* every call scans the palette and assigns again.
getLayerColorNoLookup(assigned, layerId) ==
    IF \E i \in 1..Len(LAYER_COLORS) :
          LAYER_COLORS[i].color \notin AssignedValues(assigned)
    THEN LET first == CHOOSE i \in 1..Len(LAYER_COLORS) :
                         /\ LAYER_COLORS[i].color \notin AssignedValues(assigned)
                         /\ \A j \in 1..(i - 1) :
                               LAYER_COLORS[j].color \in AssignedValues(assigned)
         IN [info |-> LAYER_COLORS[first],
             assigned |-> MapSet(assigned, layerId, LAYER_COLORS[first].color)]
    ELSE LET index == Cardinality(DOMAIN assigned) % Len(LAYER_COLORS)
         IN [info |-> LAYER_COLORS[index + 1],
             assigned |-> MapSet(assigned, layerId, LAYER_COLORS[index + 1].color)]

\* Mutant of getLayerColor: a new layer id always gets the first palette
\* entry.
getLayerColorFirstEntry(assigned, layerId) ==
    IF layerId \in DOMAIN assigned
    THEN [info |-> IF FindColor(assigned[layerId]) # Undefined
                   THEN FindColor(assigned[layerId])
                   ELSE LAYER_COLORS[1],
          assigned |-> assigned]
    ELSE [info |-> LAYER_COLORS[1],
          assigned |-> MapSet(assigned, layerId, LAYER_COLORS[1].color)]

\* getLayerColor(layerId, layerName): the ColorInfo returned and the table
\* after the call. layerName is not read by the code.
getLayerColor(assigned, layerId) ==
    IF layerId \in DOMAIN assigned
    THEN [info |-> IF FindColor(assigned[layerId]) # Undefined
                   THEN FindColor(assigned[layerId])
                   ELSE LAYER_COLORS[1],
          assigned |-> assigned]
    ELSE IF \E i \in 1..Len(LAYER_COLORS) :
               LAYER_COLORS[i].color \notin AssignedValues(assigned)
    THEN LET first == CHOOSE i \in 1..Len(LAYER_COLORS) :
                         /\ LAYER_COLORS[i].color \notin AssignedValues(assigned)
                         /\ \A j \in 1..(i - 1) :
                               LAYER_COLORS[j].color \in AssignedValues(assigned)
         IN [info |-> LAYER_COLORS[first],
             assigned |-> MapSet(assigned, layerId, LAYER_COLORS[first].color)]
    ELSE LET index == Cardinality(DOMAIN assigned) % Len(LAYER_COLORS)
         IN [info |-> LAYER_COLORS[index + 1],
             assigned |-> MapSet(assigned, layerId, LAYER_COLORS[index + 1].color)]

getColorInfo(color) ==
    IF FindColor(color) # Undefined THEN FindColor(color)
    ELSE [color |-> color, name |-> "Custom", description |-> "Custom color"]

\* new Map(assignedColors)
getAssignedColors(assigned) == assigned

isColorAvailable(assigned, color) == color \notin AssignedValues(assigned)

\* The empty Map.
EmptyMap == [id \in {} |-> ""]

\* Mutant of resetColorAssignments: the entry of the first layer id survives.
resetKeepsFirst(assigned) == [id \in DOMAIN assigned \cap {1} |-> assigned[id]]

\* resetColorAssignments(): assignedColors.clear()
resetColorAssignments(assigned) == EmptyMap

----------------------------------------------------------------------------
(* State of the colour assignment table and its operations                 *)

MaxLayerIds == 38

\* Layer ids are opaque keys that the code only compares for equality, so
\* the ids are numbered in the order of their first getLayerColor call: a
\* call is for an id already in the table or for the next new id.
LayerIds == 1..MaxLayerIds

\* The colours the lookups are called with: the first palette colour, the
\* colour that occurs twice in the palette, the last one and a colour that
\* is not in the palette.
ColorArgs == {LAYER_COLORS[1].color, LAYER_COLORS[8].color,
              LAYER_COLORS[Len(LAYER_COLORS)].color, "#123456"}

NoGet == [id |-> 0, info |-> Undefined]

InitColor ==
    /\ assignedColors = EmptyMap
    /\ lastGet = NoGet
    /\ ret = [op |-> "none"]

CallGetLayerColor ==
    \E layerId \in LayerIds :
       /\ layerId \in DOMAIN assignedColors
          \/ layerId = Cardinality(DOMAIN assignedColors) + 1
       /\ LET r == getLayerColor(assignedColors, layerId)
          IN /\ assignedColors' = r.assigned
             /\ lastGet' = [id |-> layerId, info |-> r.info]
             /\ ret' = [op |-> "getLayerColor", id |-> layerId, info |-> r.info]
       /\ UNCHANGED <<searchVars, utilVars, hookVars, restVars>>

CallGetColorInfo ==
    /\ \E color \in ColorArgs :
          ret' = [op |-> "getColorInfo", color |-> color, info |-> getColorInfo(color)]
    /\ UNCHANGED <<assignedColors, lastGet, searchVars, utilVars, hookVars, restVars>>

\* ret.size records how many entries the table held when it was cleared.
CallResetColorAssignments ==
    /\ assignedColors' = resetColorAssignments(assignedColors)
    /\ lastGet' = NoGet
    /\ ret' = [op |-> "resetColorAssignments",
               size |-> Cardinality(DOMAIN assignedColors)]
    /\ UNCHANGED <<searchVars, utilVars, hookVars, restVars>>

CallGetAssignedColors ==
    /\ ret' = [op |-> "getAssignedColors", map |-> getAssignedColors(assignedColors)]
    /\ UNCHANGED <<assignedColors, lastGet, searchVars, utilVars, hookVars, restVars>>

CallIsColorAvailable ==
    /\ \E color \in ColorArgs :
          ret' = [op |-> "isColorAvailable", color |-> color,
                  available |-> isColorAvailable(assignedColors, color)]
    /\ UNCHANGED <<assignedColors, lastGet, searchVars, utilVars, hookVars, restVars>>

NextColor ==
    \/ CallGetLayerColor
    \/ CallGetColorInfo
    \/ CallResetColorAssignments
    \/ CallGetAssignedColors
    \/ CallIsColorAvailable

----------------------------------------------------------------------------
(* utils/layerUtils.ts: validateLayer, createDefaultLayer, mergeLayers,    *)
(* getLayerFeatureNames, filterLayerFeatures                               *)

s_FeatureCollection == <<"F", "e", "a", "t", "u", "r", "e", "C", "o", "l", "l", "e", "c", "t", "i", "o", "n">>

s_Feature == <<"F", "e", "a", "t", "u", "r", "e">>

s_name == <<"n", "a", "m", "e">>

\* layer.data of a layer object that has not been validated: an object with
\* a type and features, each of which can be missing.
LayerData(type, features) ==
    [t |-> "object", type |-> type, features |-> features]

\* A layer object as a caller hands it over: id, name, nameProperty and
\* style are JavaScript values, data is a LayerData or Undefined.
LayerRecord(id, name, data, nameProperty, style) ==
    [id |-> id, name |-> name, data |-> data, nameProperty |-> nameProperty,
     style |-> style]

\* errors.push(message) when the condition holds
PushIf(condition, message) == IF condition THEN <<message>> ELSE <<>>

\* Mutant of validateLayer: the function returns at the first failed check.
validateLayerFirstError(layer) ==
    LET errors ==
          PushIf(~Truthy(layer.id), "Layer ID is required")
          \o PushIf(~Truthy(layer.name), "Layer name is required")
          \o PushIf(~Truthy(layer.data), "Layer data is required")
          \o PushIf(~Truthy(layer.nameProperty), "Name property is required")
          \o PushIf(Truthy(layer.data) /\ layer.data.type # Str(s_FeatureCollection),
                    "Layer data must be a FeatureCollection")
          \o PushIf(/\ Truthy(layer.data)
                    /\ layer.data.features.kind # "undefined"
                    /\ layer.data.features.kind # "array",
                    "Layer features must be an array")
    IN [isValid |-> Len(errors) = 0,
        errors |-> IF Len(errors) = 0 THEN errors ELSE <<errors[1]>>]

\* validateLayer(layer): the six checks in source order; features that are
\* missing (falsy) pass the last one.
validateLayer(layer) ==
    LET errors ==
          PushIf(~Truthy(layer.id), "Layer ID is required")
          \o PushIf(~Truthy(layer.name), "Layer name is required")
          \o PushIf(~Truthy(layer.data), "Layer data is required")
          \o PushIf(~Truthy(layer.nameProperty), "Name property is required")
          \o PushIf(Truthy(layer.data) /\ layer.data.type # Str(s_FeatureCollection),
                    "Layer data must be a FeatureCollection")
          \o PushIf(/\ Truthy(layer.data)
                    /\ layer.data.features.kind # "undefined"
                    /\ layer.data.features.kind # "array",
                    "Layer features must be an array")
    IN [isValid |-> Len(errors) = 0, errors |-> errors]

DefaultStyle ==
    [fill |-> [color |-> "#088", opacity |-> "0.2"],
     line |-> [color |-> "#088", width |-> "2"]]

createDefaultLayer(id, name, data, nameProperty) ==
    LayerRecord(id, name, data, nameProperty, DefaultStyle)

MergedStyle ==
    [fill |-> [color |-> "#666", opacity |-> "0.3"],
     line |-> [color |-> "#666", width |-> "1"]]

\* The outcome of a call that can write to its arguments: what it returned
\* and the layers argument as it is after the call.
Outcome(status, value, layers) ==
    [status |-> status, value |-> value, layers |-> layers]

\* allFeatures after the forEach has gone through layers[i..]:
\* allFeatures.push(...layer.data.features) for each layer that has features.
RECURSIVE PushAllFeatures(_, _, _)
PushAllFeatures(layers, i, allFeatures) ==
    IF i > Len(layers) THEN allFeatures
    ELSE PushAllFeatures(layers, i + 1,
            IF HasFeatures(layers[i])
            THEN allFeatures \o layers[i].data.features.items
            ELSE allFeatures)

MergedLayer(mergedId, mergedName, allFeatures) ==
    [id |-> mergedId, name |-> mergedName,
     data |-> [type |-> "FeatureCollection", features |-> FeatureArray(allFeatures)],
     nameProperty |-> "name", style |-> MergedStyle]

\* Mutant of mergeLayers: the features are collected in the feature array of
\* the first layer that has one, instead of a new array.
mergeLayersIntoFirst(layers, mergedId, mergedName) ==
    IF \E i \in 1..Len(layers) : layers[i].data.features.kind = "object"
    THEN Outcome("TypeError", Undefined, layers)
    ELSE LET allFeatures == PushAllFeatures(layers, 1, <<>>)
             withFeatures == {i \in 1..Len(layers) : HasFeatures(layers[i])}
         IN Outcome("ok", MergedLayer(mergedId, mergedName, allFeatures),
               [i \in 1..Len(layers) |->
                   IF i \in withFeatures /\ \A j \in withFeatures : i <= j
                   THEN [layers[i] EXCEPT !.data.features = FeatureArray(allFeatures)]
                   ELSE layers[i]])

\* mergeLayers(layers, mergedId, mergedName). Spreading features that are a
\* plain object raises a TypeError (not iterable).
mergeLayers(layers, mergedId, mergedName) ==
    IF \E i \in 1..Len(layers) : layers[i].data.features.kind = "object"
    THEN Outcome("TypeError", Undefined, layers)
    ELSE Outcome("ok",
            MergedLayer(mergedId, mergedName, PushAllFeatures(layers, 1, <<>>)),
            layers)

\* getLayerFeatureNames(layer). Features that are a plain object have no
\* map method: TypeError.
getLayerFeatureNames(layer) ==
    IF ~HasFeatures(layer) THEN Returned(<<>>)
    ELSE IF layer.data.features.kind = "object" THEN TypeError
    ELSE LET items == layer.data.features.items
         IN Returned([i \in 1..Len(items) |->
                        [name |-> FeatureNameValue(layer, items[i]),
                         id |-> FeatureIdValue(items[i]),
                         feature |-> items[i]]])

\* filterLayerFeatures(layer, searchTerm). The value returned is
\* layer.data.features itself for a blank term, [] when there are none. The
\* callback calls toLowerCase on the resolved name, which a number does not
\* have: TypeError. Features that are a plain object have no filter method.
filterLayerFeatures(layer, searchTerm) ==
    IF Len(trim(searchTerm)) = 0 \/ ~HasFeatures(layer)
    THEN Returned(IF HasFeatures(layer) THEN layer.data.features
                  ELSE FeatureArray(<<>>))
    ELSE IF layer.data.features.kind = "object" THEN TypeError
    ELSE LET items == layer.data.features.items
         IN IF \E i \in 1..Len(items) :
                  FeatureNameValue(layer, items[i]).t # "string"
            THEN TypeError
            ELSE Returned(FeatureArray(SelectSeq(items,
                    LAMBDA feature :
                       includes(toLowerCase(FeatureNameValue(layer, feature).s),
                                toLowerCase(searchTerm)))))

----------------------------------------------------------------------------
(* Inputs and calls of the layerUtils functions                            *)

MaxFeatures == 2

MaxMerge == 2

s_Un == <<"U", "n">>

s__a == <<" ", "a">>

\* Features with a string name, an empty name, no properties, no name, a
\* numeric name and numeric ids, and an empty objectid.
UtilFeature1 ==
    Feature(Props([name |-> Str(s_Abcd), objectid |-> Str(s_k1), id |-> Str(s_k2)]),
            Str(s_k3))

UtilFeature2 == Feature(Props([name |-> Str(<<>>), id |-> Str(s_k2)]), Str(s_k3))

UtilFeature3 == Feature(NullProps, Undefined)

UtilFeature4 == Feature(Props([label |-> Str(s_ab)]), Str(s_k3))

UtilFeature5 ==
    Feature(Props([name |-> Num(5), objectid |-> Num(0), id |-> Str(s_k2)]), Num(7))

UtilFeature6 ==
    Feature(Props([name |-> Str(s_xabcd), objectid |-> Str(<<>>)]), Num(0))

UtilFeatures ==
    {UtilFeature1, UtilFeature2, UtilFeature3, UtilFeature4, UtilFeature5,
     UtilFeature6}

SeqsUpTo(S, n) == UNION {[1..k -> S] : k \in 0..n}

UtilLayer(features) == Layer(s_k1, s_ab, "name", features)

UtilLayers ==
    {UtilLayer(FeatureArray(items)) : items \in SeqsUpTo(UtilFeatures, MaxFeatures)}
    \cup {UtilLayer(FeaturesMissing), UtilLayer(FeaturesNotArray)}

FilterTerms == {<<>>, <<" ">>, s_ab, s_AB, s_Un, s__a}

MergePool ==
    {UtilLayer(FeatureArray(<<>>)),
     UtilLayer(FeatureArray(<<UtilFeature1>>)),
     UtilLayer(FeatureArray(<<UtilFeature2, UtilFeature3>>)),
     UtilLayer(FeatureArray(<<UtilFeature3, UtilFeature1, UtilFeature5>>)),
     Layer(s_k2, s_zz, "label", FeaturesMissing),
     Layer(s_k3, s_zz, "label", FeaturesNotArray)}

MergeInputs == SeqsUpTo(MergePool, MaxMerge)

MergedNames == {[id |-> s_k4, name |-> s_zz], [id |-> s_k1, name |-> s_ab]}

ValidateInputs ==
    {LayerRecord(id, name, data, nameProperty, Undefined) :
        id \in {Undefined, Str(<<>>), Str(s_k1)},
        name \in {Undefined, Str(<<>>), Str(s_ab)},
        data \in {Undefined,
                  LayerData(Str(s_FeatureCollection), FeatureArray(<<>>)),
                  LayerData(Str(s_FeatureCollection), FeaturesMissing),
                  LayerData(Str(s_FeatureCollection), FeaturesNotArray),
                  LayerData(Str(s_Feature), FeatureArray(<<UtilFeature1>>)),
                  LayerData(Undefined, FeaturesNotArray)},
        nameProperty \in {Undefined, Str(s_name)}}

NoUtilCall == [op |-> "none"]

InitUtil == utilCall = NoUtilCall

CallValidateLayer ==
    /\ utilCall.op = "none"
    /\ \E layer \in ValidateInputs :
          utilCall' = [op |-> "validateLayer", layer |-> layer,
                       result |-> Returned(validateLayer(layer))]
    /\ UNCHANGED <<searchVars, colorVars, hookVars, restVars>>

CallMergeLayers ==
    /\ utilCall.op = "none"
    /\ \E layers \in MergeInputs, merged \in MergedNames :
          utilCall' = [op |-> "mergeLayers", layers |-> layers,
                       mergedId |-> merged.id, mergedName |-> merged.name,
                       result |-> mergeLayers(layers, merged.id, merged.name)]
    /\ UNCHANGED <<searchVars, colorVars, hookVars, restVars>>

CallGetLayerFeatureNames ==
    /\ utilCall.op = "none"
    /\ \E layer \in UtilLayers :
          utilCall' = [op |-> "getLayerFeatureNames", layer |-> layer,
                       result |-> getLayerFeatureNames(layer)]
    /\ UNCHANGED <<searchVars, colorVars, hookVars, restVars>>

CallFilterLayerFeatures ==
    /\ utilCall.op = "none"
    /\ \E layer \in UtilLayers, searchTerm \in FilterTerms :
          utilCall' = [op |-> "filterLayerFeatures", layer |-> layer,
                       searchTerm |-> searchTerm,
                       result |-> filterLayerFeatures(layer, searchTerm)]
    /\ UNCHANGED <<searchVars, colorVars, hookVars, restVars>>

NextUtil ==
    \/ CallValidateLayer
    \/ CallMergeLayers
    \/ CallGetLayerFeatureNames
    \/ CallFilterLayerFeatures

----------------------------------------------------------------------------
(* hooks/useMapLayers: the layer registry of a component                   *)
(*                                                                         *)
(* hookLayers and hookActive are the two useState values with every update *)
(* queued so far applied. The callbacks read layers and activeLayer from   *)
(* the closure of the render that created them (capLayers, capActive);     *)
(* functional updaters read the latest queued state. Several calls can be  *)
(* made before the component renders again.                                *)

MaxHookLayers == 2

MaxBatch == 2

\* activeLayer === null
Null == [t |-> "null"]

\* { ...layer, ...updates }
Spread(layer, updates) ==
    [key \in DOMAIN layer |->
        IF key \in DOMAIN updates THEN updates[key] ELSE layer[key]]

\* prevLayers.some(l => l.id === layerId)
SomeId(layers, layerId) == \E i \in 1..Len(layers) : layers[i].id = layerId

\* layers.find(l => l.id === layerId)
FindLayer(layers, layerId) ==
    IF SomeId(layers, layerId)
    THEN layers[CHOOSE i \in 1..Len(layers) :
                   /\ layers[i].id = layerId
                   /\ \A j \in 1..(i - 1) : layers[j].id # layerId]
    ELSE Undefined

\* Mutant of addLayerUpdater: a layer whose id exists replaces the old one.
addLayerUpdaterReplaces(prevLayers, layer) ==
    IF SomeId(prevLayers, layer.id)
    THEN [i \in 1..Len(prevLayers) |->
            IF prevLayers[i].id = layer.id THEN layer ELSE prevLayers[i]]
    ELSE Append(prevLayers, layer)

\* The updater addLayer hands to setLayers.
addLayerUpdater(prevLayers, layer) ==
    IF SomeId(prevLayers, layer.id) THEN prevLayers
    ELSE Append(prevLayers, layer)

\* prevLayers.filter(l => l.id !== layerId)
removeLayerUpdater(prevLayers, layerId) ==
    SelectSeq(prevLayers, LAMBDA l : l.id # layerId)

\* prevLayers.map(layer => layer.id === layerId ? {...layer, ...updates} : layer)
updateLayerUpdater(prevLayers, layerId, updates) ==
    [i \in 1..Len(prevLayers) |->
        IF prevLayers[i].id = layerId THEN Spread(prevLayers[i], updates)
        ELSE prevLayers[i]]

\* activeLayer?.id === layerId, on the captured activeLayer
CapturedActiveIs(layerId) == capActive # Null /\ capActive.id = layerId

ValidData == LayerData(Str(s_FeatureCollection), FeatureArray(<<>>))

HookIds == {Str(s_k1), Str(s_k2)}

\* The layers addLayer is called with: a complete layer for each id, and a
\* layer without a name.
AddArgs ==
    {createDefaultLayer(id, Str(s_ab), ValidData, Str(s_name)) : id \in HookIds}
    \cup {createDefaultLayer(Str(s_k1), Undefined, ValidData, Str(s_name))}

\* The (id, name, data) loadLayerFromGeoJSON is called with; nameProperty
\* takes its default 'name'.
LoadArgs ==
    {[id |-> id, name |-> Str(s_zz), data |-> data] :
        id \in HookIds, data \in {ValidData, Undefined}}

\* The ids removeLayer, updateLayer and setActiveLayerById are called with:
\* the ids of the layers and an id that no layer has.
IdArgs == HookIds \cup {Str(s_k3)}

UpdateArgs == {[name |-> Str(s_zz)], [id |-> Str(s_k2)]}

InitHook ==
    /\ hookLayers = <<>>
    /\ hookActive = Null
    /\ capLayers = <<>>
    /\ capActive = Null
    /\ deferred = <<>>
    /\ batch = 0
    /\ hookRet = [op |-> "none"]

\* addLayer(layer), also the tail of loadLayerFromGeoJSON.
AddLayer(op, layer) ==
    /\ Len(hookLayers) < MaxHookLayers \/ SomeId(hookLayers, layer.id)
    /\ batch' = batch + 1
    /\ IF ~validateLayer(layer).isValid
       THEN /\ hookRet' = [op |-> op, layer |-> layer, result |-> FALSE]
            /\ UNCHANGED <<hookLayers, hookActive>>
       ELSE /\ hookLayers' = addLayerUpdater(hookLayers, layer)
            /\ hookActive' = IF Len(capLayers) = 0 THEN layer ELSE hookActive
            /\ hookRet' = [op |-> op, layer |-> layer, result |-> TRUE]
    /\ UNCHANGED <<capLayers, capActive, deferred>>
    /\ UNCHANGED <<searchVars, colorVars, utilVars, restVars>>

CallAddLayer ==
    /\ batch < MaxBatch
    /\ \E layer \in AddArgs : AddLayer("addLayer", layer)

\* loadLayerFromGeoJSON(id, name, data): addLayer(createDefaultLayer(...))
CallLoadLayerFromGeoJSON ==
    /\ batch < MaxBatch
    /\ \E a \in LoadArgs :
          AddLayer("loadLayerFromGeoJSON",
                   createDefaultLayer(a.id, a.name, a.data, Str(s_name)))

\* removeLayer(layerId). The updater calls setActiveLayer: at once when the
\* updater is run by setLayers, at the next render when updates are queued
\* before it.
CallRemoveLayer ==
    \E layerId \in IdArgs :
       LET newLayers == removeLayerUpdater(hookLayers, layerId)
           newActive == IF Len(newLayers) > 0 THEN newLayers[1] ELSE Null
       IN /\ batch < MaxBatch
          /\ batch' = batch + 1
          /\ hookLayers' = newLayers
          /\ IF CapturedActiveIs(layerId)
             THEN \/ hookActive' = newActive /\ deferred' = deferred
                  \/ /\ batch > 0
                     /\ hookActive' = hookActive
                     /\ deferred' = Append(deferred, newActive)
             ELSE UNCHANGED <<hookActive, deferred>>
          /\ hookRet' = [op |-> "removeLayer", layerId |-> layerId]
          /\ UNCHANGED <<capLayers, capActive>>
          /\ UNCHANGED <<searchVars, colorVars, utilVars, restVars>>

CallUpdateLayer ==
    \E layerId \in IdArgs, updates \in UpdateArgs :
       /\ batch < MaxBatch
       /\ batch' = batch + 1
       /\ hookLayers' = updateLayerUpdater(hookLayers, layerId, updates)
       /\ hookActive' = IF CapturedActiveIs(layerId) /\ hookActive # Null
                        THEN Spread(hookActive, updates)
                        ELSE hookActive
       /\ hookRet' = [op |-> "updateLayer", layerId |-> layerId,
                      updates |-> updates]
       /\ UNCHANGED <<capLayers, capActive, deferred>>
       /\ UNCHANGED <<searchVars, colorVars, utilVars, restVars>>

CallSetActiveLayerById ==
    \E layerId \in IdArgs :
       /\ batch < MaxBatch
       /\ batch' = batch + 1
       /\ hookActive' = IF FindLayer(capLayers, layerId) # Undefined
                        THEN FindLayer(capLayers, layerId)
                        ELSE hookActive
       /\ hookRet' = [op |-> "setActiveLayerById", layerId |-> layerId]
       /\ UNCHANGED <<hookLayers, capLayers, capActive, deferred>>
       /\ UNCHANGED <<searchVars, colorVars, utilVars, restVars>>

CallClearLayers ==
    /\ batch < MaxBatch
    /\ batch' = batch + 1
    /\ hookLayers' = <<>>
    /\ hookActive' = Null
    /\ hookRet' = [op |-> "clearLayers"]
    /\ UNCHANGED <<capLayers, capActive, deferred>>
    /\ UNCHANGED <<searchVars, colorVars, utilVars, restVars>>

\* The component renders: the queued updates are committed, the
\* setActiveLayer calls of updaters that ran during the render come last,
\* and the callbacks are created again over the new values.
Render ==
    /\ batch > 0
    /\ batch' = 0
    /\ hookActive' = IF Len(deferred) > 0 THEN deferred[Len(deferred)]
                     ELSE hookActive
    /\ deferred' = <<>>
    /\ capLayers' = hookLayers
    /\ capActive' = hookActive'
    /\ hookRet' = [op |-> "render"]
    /\ UNCHANGED hookLayers
    /\ UNCHANGED <<searchVars, colorVars, utilVars, restVars>>

NextHook ==
    \/ CallAddLayer
    \/ CallLoadLayerFromGeoJSON
    \/ CallRemoveLayer
    \/ CallUpdateLayer
    \/ CallSetActiveLayerById
    \/ CallClearLayers
    \/ Render

----------------------------------------------------------------------------
(* utils/colorPalette.ts: getLayerColor called by two threads              *)
(*                                                                         *)
(* In mode "atomic" a call is one step. In mode "parallel" a call for a    *)
(* layer id that is not in the table takes two steps: the scan of the      *)
(* table (has, the for loop over LAYER_COLORS, assignedColors.size) and    *)
(* the assignedColors.set that follows, and the other thread can run in    *)
(* between.                                                                *)

MaxParIds == 3

ParIds == 1..MaxParIds

Threads == {1, 2}

\* A thread that has made no call.
IdleThread ==
    [pc |-> "idle", id |-> 0, seen |-> EmptyMap, info |-> Undefined,
     wrote |-> FALSE]

NoPar == [mode |-> "none"]

InitPar == par = NoPar

InitParModes ==
    par \in {[mode |-> mode, table |-> EmptyMap,
              threads |-> [t \in Threads |-> IdleThread]] :
                mode \in {"atomic", "parallel"}}

\* getLayerColor(layerId) as one step.
ParGetLayerColor ==
    /\ par.mode = "atomic"
    /\ \E t \in Threads, layerId \in ParIds :
          LET r == getLayerColor(par.table, layerId)
          IN par' = [par EXCEPT
                        !.table = r.assigned,
                        !.threads[t] = [pc |-> "idle", id |-> layerId,
                                        seen |-> par.table, info |-> r.info,
                                        wrote |-> layerId \notin DOMAIN par.table]]
    /\ UNCHANGED <<oldVars, store, upload, mapView, geomCall>>

\* Lines 47-54 and 61-62: the thread looks the id up and, when it is not in
\* the table, picks the colour; a call for an id that is in the table
\* returns here.
ParScan ==
    /\ par.mode = "parallel"
    /\ \E t \in Threads, layerId \in ParIds :
          /\ par.threads[t].pc = "idle"
          /\ par' = [par EXCEPT
                        !.threads[t] =
                           [pc |-> IF layerId \in DOMAIN par.table
                                   THEN "idle" ELSE "scanned",
                            id |-> layerId,
                            seen |-> par.table,
                            info |-> getLayerColor(par.table, layerId).info,
                            wrote |-> FALSE]]
    /\ UNCHANGED <<oldVars, store, upload, mapView, geomCall>>

\* Lines 55-56 and 63-64: assignedColors.set(layerId, colorInfo.color) and
\* the return.
ParWrite ==
    /\ par.mode = "parallel"
    /\ \E t \in Threads :
          /\ par.threads[t].pc = "scanned"
          /\ par' = [par EXCEPT
                        !.table = MapSet(par.table, par.threads[t].id,
                                         par.threads[t].info.color),
                        !.threads[t].pc = "idle",
                        !.threads[t].wrote = TRUE]
    /\ UNCHANGED <<oldVars, store, upload, mapView, geomCall>>

NextPar ==
    \/ ParGetLayerColor
    \/ ParScan
    \/ ParWrite

----------------------------------------------------------------------------
(* store/mapSlice: the feature store                                       *)

\* state.features is an object keyed by feature id. It is held as the
\* sequence of its values in key order, which for keys that are not array
\* indices is insertion order: Object.values(state.features) is the sequence.
initialState ==
    [features |-> <<>>, currentArea |-> Null,
     geojson |-> [type |-> "FeatureCollection", features |-> <<>>]]

\* state.features[key] is present
HasKey(features, key) == \E i \in 1..Len(features) : features[i].id.s = key

\* state.features[feature.id] = feature
ObjectSet(features, feature) ==
    IF HasKey(features, feature.id.s)
    THEN [i \in 1..Len(features) |->
             IF features[i].id.s = feature.id.s THEN feature ELSE features[i]]
    ELSE Append(features, feature)

\* delete state.features[feature.id]
ObjectDelete(features, feature) ==
    SelectSeq(features, LAMBDA f : f.id.s # feature.id.s)

\* Array.isArray(action.payload) ? action.payload : [action.payload]
AsArray(payload) == IF payload.array THEN payload.items ELSE <<payload.item>>

\* features.forEach(feature => { if (feature.id) state.features[feature.id] = feature })
RECURSIVE SetAll(_, _, _)
SetAll(features, items, i) ==
    IF i > Len(items) THEN features
    ELSE SetAll(IF Truthy(items[i].id) THEN ObjectSet(features, items[i])
                ELSE features,
                items, i + 1)

\* features.forEach(feature => { if (feature.id) delete state.features[feature.id] })
RECURSIVE DeleteAll(_, _, _)
DeleteAll(features, items, i) ==
    IF i > Len(items) THEN features
    ELSE DeleteAll(IF Truthy(items[i].id) THEN ObjectDelete(features, items[i])
                   ELSE features,
                   items, i + 1)

updateFeatures(state, payload) ==
    LET features == SetAll(state.features, AsArray(payload), 1)
    IN [state EXCEPT !.features = features, !.geojson.features = features]

deleteFeatures(state, payload) ==
    LET features == DeleteAll(state.features, AsArray(payload), 1)
    IN [state EXCEPT !.features = features, !.geojson.features = features]

updateCurrentArea(state, payload) == [state EXCEPT !.currentArea = payload]

\* Mutant of SpreadProperties: the given properties replace the existing ones.
SpreadPropertiesReplaces(old, new) == Props(new)

\* { ...state.features[id].properties, ...properties }: spreading null gives
\* no keys.
SpreadProperties(old, new) ==
    LET oldKeys == IF old.null THEN {} ELSE DOMAIN old.map
    IN Props([key \in oldKeys \cup DOMAIN new |->
                 IF key \in DOMAIN new THEN new[key] ELSE old.map[key]])

updateFeatureProperties(state, payload) ==
    IF HasKey(state.features, payload.id)
    THEN LET features ==
                 [i \in 1..Len(state.features) |->
                     IF state.features[i].id.s = payload.id
                     THEN [state.features[i] EXCEPT
                              !.properties = SpreadProperties(@, payload.properties)]
                     ELSE state.features[i]]
         IN [state EXCEPT !.features = features, !.geojson.features = features]
    ELSE state

clearFeatures(state) ==
    [state EXCEPT !.features = <<>>, !.geojson.features = <<>>,
                  !.currentArea = Null]

setFeatures(state, payload) ==
    [state EXCEPT !.features = SetAll(<<>>, payload, 1),
                  !.geojson.features = payload]

\* Inputs of the reducers.
s_f1 == <<"f", "1">>
s_f2 == <<"f", "2">>
s_f9 == <<"f", "9">>

StoreIds == {Undefined, Num(0), Str(s_f1), Str(s_f2)}

StoreProperties == {Props([name |-> Num(1)]), Props([name |-> Num(2), area |-> Num(1)])}

StoreFeatures == {Feature(p, id) : p \in StoreProperties, id \in StoreIds}

FeatureLists ==
    {<<>>} \cup {<<f>> : f \in StoreFeatures}
           \cup {<<f, g>> : f \in StoreFeatures, g \in StoreFeatures}

FeaturePayloads ==
    {[array |-> FALSE, item |-> f, items |-> <<>>] : f \in StoreFeatures}
    \cup {[array |-> TRUE, item |-> Undefined, items |-> fs] : fs \in FeatureLists}

PropertyPayloads ==
    {[id |-> id, properties |-> p] :
        id \in {s_f1, s_f2, s_f9},
        p \in {[name |-> Num(3)], [area |-> Num(2)], [name |-> Num(1), area |-> Num(2)]}}

AreaPayloads == {Num(0), Num(5)}

NoDispatch == [type |-> "none"]

InitStore == store = [op |-> "none"]

InitStoreState == store = [op |-> "store", state |-> initialState, last |-> NoDispatch]

DispatchUpdateFeatures ==
    /\ store.op = "store"
    /\ \E payload \in FeaturePayloads :
          store' = [store EXCEPT !.state = updateFeatures(@, payload),
                                 !.last = [type |-> "updateFeatures"]]
    /\ UNCHANGED <<oldVars, par, upload, mapView, geomCall>>

DispatchDeleteFeatures ==
    /\ store.op = "store"
    /\ \E payload \in FeaturePayloads :
          store' = [store EXCEPT !.state = deleteFeatures(@, payload),
                                 !.last = [type |-> "deleteFeatures"]]
    /\ UNCHANGED <<oldVars, par, upload, mapView, geomCall>>

DispatchUpdateCurrentArea ==
    /\ store.op = "store"
    /\ \E payload \in AreaPayloads :
          store' = [store EXCEPT !.state = updateCurrentArea(@, payload),
                                 !.last = [type |-> "updateCurrentArea"]]
    /\ UNCHANGED <<oldVars, par, upload, mapView, geomCall>>

DispatchUpdateFeatureProperties ==
    /\ store.op = "store"
    /\ \E payload \in PropertyPayloads :
          store' = [store EXCEPT !.state = updateFeatureProperties(@, payload),
                                 !.last = [type |-> "updateFeatureProperties",
                                           payload |-> payload]]
    /\ UNCHANGED <<oldVars, par, upload, mapView, geomCall>>

DispatchClearFeatures ==
    /\ store.op = "store"
    /\ store' = [store EXCEPT !.state = clearFeatures(@),
                              !.last = [type |-> "clearFeatures"]]
    /\ UNCHANGED <<oldVars, par, upload, mapView, geomCall>>

DispatchSetFeatures ==
    /\ store.op = "store"
    /\ \E payload \in FeatureLists :
          store' = [store EXCEPT !.state = setFeatures(@, payload),
                                 !.last = [type |-> "setFeatures"]]
    /\ UNCHANGED <<oldVars, par, upload, mapView, geomCall>>

NextStore ==
    \/ DispatchUpdateFeatures
    \/ DispatchDeleteFeatures
    \/ DispatchUpdateCurrentArea
    \/ DispatchUpdateFeatureProperties
    \/ DispatchClearFeatures
    \/ DispatchSetFeatures

----------------------------------------------------------------------------
(* components/UploadGISLayer: the upload dialog                            *)

MaxUploads == 2

acceptedFileTypes == {".csv", ".shp", ".shx", ".dbf", ".prj", ".geojson", ".json", ".kml", ".kmz"}

\* A file: the extension of its name and whether its content is what the
\* parser of that extension needs (coordinate columns in a CSV, a Feature or
\* a FeatureCollection in a GeoJSON file).
File(extension, wellFormed) == [extension |-> extension, wellFormed |-> wellFormed]

Resolved(layer) == [status |-> "resolved", layer |-> layer, message |-> ""]

Rejected(message) == [status |-> "rejected", layer |-> Undefined, message |-> message]

UploadedLayer(file, nameProperty, color) ==
    [t |-> "object", file |-> file, nameProperty |-> nameProperty, color |-> color]

processCSV(file) ==
    IF file.wellFormed THEN Resolved(UploadedLayer(file, "headers[0]", "#ff6b6b"))
    ELSE Rejected("CSV must contain latitude and longitude columns")

processGeoJSON(file) ==
    IF file.wellFormed THEN Resolved(UploadedLayer(file, "name", "#4ecdc4"))
    ELSE Rejected("Invalid GeoJSON file")

processKML(file) == Resolved(UploadedLayer(file, "name", "#45b7d1"))

processShapefile(file) ==
    Rejected("Shapefile support requires additional libraries. Please convert to GeoJSON or KML format.")

\* The promise processFile(file) settles with.
processFile(file) ==
    CASE file.extension = ".csv" -> processCSV(file)
      [] file.extension \in {".geojson", ".json"} -> processGeoJSON(file)
      [] file.extension \in {".kml", ".kmz"} -> processKML(file)
      [] file.extension = ".shp" -> processShapefile(file)
      [] OTHER -> Rejected("Unsupported file type")

\* Mutant of catchBlock: the dialog stays in the uploading state.
catchBlockKeepsUploading(state, message) ==
    [state EXCEPT !.error = Str(message), !.uploadProgress = 0]

\* catch (err) { setError(err.message); setUploading(false); setUploadProgress(0) }
catchBlock(state, message) ==
    [state EXCEPT !.error = Str(message), !.uploading = FALSE, !.uploadProgress = 0]

\* The updater of the progress interval: what it returns and whether it
\* cleared its interval.
progressUpdater(prev) ==
    IF prev >= 90 THEN [value |-> 90, cleared |-> TRUE]
    ELSE [value |-> prev + 10, cleared |-> FALSE]

\* The files a user may choose.
Files ==
    {File(".txt", TRUE), File(".csv", TRUE), File(".csv", FALSE),
     File(".geojson", FALSE), File(".kml", TRUE), File(".shp", TRUE),
     File(".prj", TRUE)}

\* One call of handleFiles: its file, where it stands (pc), and whether its
\* progress interval is running.
Upload(file, pc, interval) == [file |-> file, pc |-> pc, interval |-> interval]

InitUpload == upload = [op |-> "none"]

\* useState(false), useState(null), useState(0); no file chosen yet and
\* onUpload not called yet.
InitUploadDialog ==
    upload = [op |-> "dialog", uploading |-> FALSE, error |-> Null,
              uploadProgress |-> 0, uploads |-> <<>>, onUploadCalls |-> <<>>]

\* handleFiles up to its first await. The drop zone is rendered only while
\* uploading is false. A file of an extension that is not accepted throws
\* before the interval is set and the catch block runs at once.
HandleFiles ==
    /\ upload.op = "dialog"
    /\ ~upload.uploading
    /\ Len(upload.uploads) < MaxUploads
    /\ \E file \in Files :
          LET started == [upload EXCEPT !.error = Null, !.uploading = TRUE,
                                        !.uploadProgress = 0]
          IN IF file.extension \notin acceptedFileTypes
             THEN upload' = [catchBlock(started, "Unsupported file type") EXCEPT
                                !.uploads = Append(@, Upload(file, "rejected", FALSE))]
             ELSE upload' = [started EXCEPT
                                !.uploads = Append(@, Upload(file, "processing", TRUE))]
    /\ UNCHANGED <<oldVars, par, store, mapView, geomCall>>

\* One tick of a running progress interval.
ProgressTick ==
    /\ upload.op = "dialog"
    /\ \E i \in 1..Len(upload.uploads) :
          /\ upload.uploads[i].interval
          /\ LET r == progressUpdater(upload.uploadProgress)
             IN upload' = [upload EXCEPT !.uploadProgress = r.value,
                                         !.uploads[i].interval = ~r.cleared]
    /\ UNCHANGED <<oldVars, par, store, mapView, geomCall>>

\* handleFiles after `await processFile(file)` resolved: the interval is
\* cleared, the progress set to 100 and the completion timer started.
ProcessResolved ==
    /\ upload.op = "dialog"
    /\ \E i \in 1..Len(upload.uploads) :
          /\ upload.uploads[i].pc = "processing"
          /\ processFile(upload.uploads[i].file).status = "resolved"
          /\ upload' = [upload EXCEPT !.uploadProgress = 100,
                                      !.uploads[i].interval = FALSE,
                                      !.uploads[i].pc = "timer"]
    /\ UNCHANGED <<oldVars, par, store, mapView, geomCall>>

\* handleFiles after `await processFile(file)` rejected: the catch block.
ProcessRejected ==
    /\ upload.op = "dialog"
    /\ \E i \in 1..Len(upload.uploads) :
          /\ upload.uploads[i].pc = "processing"
          /\ processFile(upload.uploads[i].file).status = "rejected"
          /\ upload' = [catchBlock(upload, processFile(upload.uploads[i].file).message)
                           EXCEPT !.uploads[i].pc = "failed"]
    /\ UNCHANGED <<oldVars, par, store, mapView, geomCall>>

\* The completion timer of 500 ms fires.
CompletionTimer ==
    /\ upload.op = "dialog"
    /\ \E i \in 1..Len(upload.uploads) :
          /\ upload.uploads[i].pc = "timer"
          /\ upload' = [upload EXCEPT
                           !.onUploadCalls =
                               Append(@, [upload |-> i,
                                          layer |-> processFile(upload.uploads[i].file).layer]),
                           !.uploading = FALSE,
                           !.uploadProgress = 0,
                           !.uploads[i].pc = "done"]
    /\ UNCHANGED <<oldVars, par, store, mapView, geomCall>>

NextUpload ==
    \/ HandleFiles
    \/ ProgressTick
    \/ ProcessResolved
    \/ ProcessRejected
    \/ CompletionTimer

----------------------------------------------------------------------------
(* components/MapView: the map initialisation effect                       *)

MaxRestarts == 2

MAX_RETRIES == 10

RetryDelay == 100

\* One run of the effect: its closure variables retryCount and timeoutId
\* (0 while undefined, else the index of the timer), and whether its cleanup
\* has run.
EffectRun(retryCount, timeoutId, cleaned) ==
    [retryCount |-> retryCount, timeoutId |-> timeoutId, cleaned |-> cleaned]

\* A timer made by setTimeout for the effect run `run`.
Timer(run, delay, status) == [run |-> run, delay |-> delay, status |-> status]

\* initMap() of the effect run k.
initMap(mv, k) ==
    IF mv.runs[k].retryCount >= MAX_RETRIES
    THEN [mv EXCEPT !.mapLoaded = TRUE]
    ELSE IF mv.ref # "map"
         THEN [mv EXCEPT !.timers = Append(@, Timer(k, RetryDelay, "pending")),
                         !.runs[k].timeoutId = Len(mv.timers) + 1]
    ELSE [mv EXCEPT !.mapLoaded = TRUE, !.loadHandlers = @ + 1]

\* Mutant of cleanup: the pending timer is left alone.
cleanupLeavesTimer(mv, k) == [mv EXCEPT !.runs[k].cleaned = TRUE]

\* The cleanup of the effect run k: clearTimeout(timeoutId) when timeoutId is
\* set. Clearing a timer that has fired does nothing. map.off('load',
\* drawAllFeatures) names a function that was never registered: the handlers
\* stay.
cleanup(mv, k) ==
    LET id == mv.runs[k].timeoutId
    IN [mv EXCEPT !.runs[k].cleaned = TRUE,
                  !.timers = IF id # 0 /\ @[id].status = "pending"
                             THEN [@ EXCEPT ![id].status = "cleared"]
                             ELSE @]

\* A new run of the effect: retryCount = 0, timeoutId undefined, initMap().
startEffect(mv) ==
    initMap([mv EXCEPT !.runs = Append(@, EffectRun(0, 0, FALSE))],
            Len(mv.runs) + 1)

InitMapView == mapView = [op |-> "none"]

\* useState(false), useRef(null): rendered, no effect has run yet.
InitMapViewRendered ==
    mapView = [op |-> "view", pc |-> "rendered", mapLoaded |-> FALSE,
               ref |-> "null", runs |-> <<>>, timers |-> <<>>,
               restarts |-> 0, loadHandlers |-> 0]

\* The effect runs after the first render.
MountEffect ==
    /\ mapView.op = "view"
    /\ mapView.pc = "rendered"
    /\ mapView' = [startEffect(mapView) EXCEPT !.pc = "mounted"]
    /\ UNCHANGED <<oldVars, par, store, upload, geomCall>>

\* A dependency of the effect changed: cleanup of the current run, then a
\* new run.
RestartEffect ==
    /\ mapView.op = "view"
    /\ mapView.pc = "mounted"
    /\ mapView.restarts < MaxRestarts
    /\ mapView' = [startEffect(cleanup(mapView, Len(mapView.runs))) EXCEPT
                      !.restarts = @ + 1]
    /\ UNCHANGED <<oldVars, par, store, upload, geomCall>>

\* The component unmounts: cleanup of the current run.
Unmount ==
    /\ mapView.op = "view"
    /\ mapView.pc = "mounted"
    /\ mapView' = [cleanup(mapView, Len(mapView.runs)) EXCEPT !.pc = "unmounted"]
    /\ UNCHANGED <<oldVars, par, store, upload, geomCall>>

\* A pending timer fires: retryCount++; initMap() in the closure of its run.
RetryTimer ==
    /\ mapView.op = "view"
    /\ \E t \in 1..Len(mapView.timers) :
          /\ mapView.timers[t].status = "pending"
          /\ LET k == mapView.timers[t].run
                 fired == [mapView EXCEPT !.timers[t].status = "fired",
                                          !.runs[k].retryCount = @ + 1]
             IN mapView' = initMap(fired, k)
    /\ UNCHANGED <<oldVars, par, store, upload, geomCall>>

\* The map component sets mapRef.current; later getMap() returns the map.
MapRefAdvances ==
    /\ mapView.op = "view"
    /\ mapView.pc = "mounted"
    /\ mapView.ref # "map"
    /\ mapView' = [mapView EXCEPT !.ref = IF @ = "null" THEN "noMap" ELSE "map"]
    /\ UNCHANGED <<oldVars, par, store, upload, geomCall>>

\* onLoad of the map component: setMapLoaded(true).
MapOnLoad ==
    /\ mapView.op = "view"
    /\ mapView.pc = "mounted"
    /\ mapView.ref = "map"
    /\ ~mapView.mapLoaded
    /\ mapView' = [mapView EXCEPT !.mapLoaded = TRUE]
    /\ UNCHANGED <<oldVars, par, store, upload, geomCall>>

NextMapView ==
    \/ MountEffect
    \/ RestartEffect
    \/ Unmount
    \/ RetryTimer
    \/ MapRefAdvances
    \/ MapOnLoad

----------------------------------------------------------------------------
(* utils/geometry.ts and the shape indices: JavaScript numbers             *)

RECURSIVE Gcd(_, _)
Gcd(a, b) == IF b = 0 THEN a ELSE Gcd(b, a % b)

AbsInt(n) == IF n < 0 THEN -n ELSE n

\* A JavaScript number is NaN, Infinity, -Infinity or finite. A finite
\* number is held exactly as (num / den) * PI^pi * sym, where sym is <<>> for
\* 1 and otherwise the positive irrational factor left by Math.sqrt or
\* Math.log. Rounding and the sign of zero are left out.
NaN == [kind |-> "NaN"]

Infinity(sign) == [kind |-> "Infinity", sign |-> sign]

Zero == [kind |-> "finite", num |-> 0, den |-> 1, pi |-> 0, sym |-> <<>>]

Finite(num, den, pi, sym) ==
    IF num = 0 THEN Zero
    ELSE LET g == Gcd(AbsInt(num), AbsInt(den))
             s == IF den < 0 THEN -1 ELSE 1
         IN [kind |-> "finite", num |-> (s * num) \div g, den |-> (s * den) \div g,
             pi |-> pi, sym |-> sym]

Rat(num, den) == Finite(num, den, 0, <<>>)

MathPI == Finite(1, 1, 1, <<>>)

\* -1, 0 or 1; NaN has no sign.
SignOf(x) ==
    IF x.kind = "Infinity" THEN x.sign
    ELSE IF x.num > 0 THEN 1 ELSE IF x.num < 0 THEN -1 ELSE 0

IsZero(x) == x.kind = "finite" /\ x.num = 0

TimesSym(s, t) == IF s = <<>> THEN t ELSE IF t = <<>> THEN s ELSE <<"*", s, t>>

OverSym(s, t) == IF t = <<>> THEN s ELSE <<"/", s, t>>

\* x * y
Times(x, y) ==
    IF x.kind = "NaN" \/ y.kind = "NaN" THEN NaN
    ELSE IF x.kind = "Infinity" \/ y.kind = "Infinity"
         THEN IF IsZero(x) \/ IsZero(y) THEN NaN
              ELSE Infinity(SignOf(x) * SignOf(y))
    ELSE IF IsZero(x) \/ IsZero(y) THEN Zero
    ELSE Finite(x.num * y.num, x.den * y.den, x.pi + y.pi, TimesSym(x.sym, y.sym))

\* x / y
Over(x, y) ==
    IF x.kind = "NaN" \/ y.kind = "NaN" THEN NaN
    ELSE IF x.kind = "Infinity"
         THEN IF y.kind = "Infinity" THEN NaN
              ELSE Infinity(x.sign * (IF SignOf(y) < 0 THEN -1 ELSE 1))
    ELSE IF y.kind = "Infinity" THEN Zero
    ELSE IF IsZero(y)
         THEN IF IsZero(x) THEN NaN ELSE Infinity(SignOf(x))
    ELSE IF IsZero(x) THEN Zero
    ELSE Finite(x.num * y.den, x.den * y.num, x.pi - y.pi, OverSym(x.sym, y.sym))

\* x + y, for rational finite numbers
Plus(x, y) ==
    IF x.kind = "NaN" \/ y.kind = "NaN" THEN NaN
    ELSE IF x.kind = "Infinity"
         THEN IF y.kind = "Infinity" /\ y.sign # x.sign THEN NaN ELSE x
    ELSE IF y.kind = "Infinity" THEN y
    ELSE Rat(x.num * y.den + y.num * x.den, x.den * y.den)

\* x <= 0
AtMostZero(x) == x.kind # "NaN" /\ SignOf(x) <= 0

\* Math.sqrt(x). The root of a positive finite number is kept as a factor.
MathSqrt(x) ==
    IF x.kind = "NaN" THEN NaN
    ELSE IF SignOf(x) < 0 THEN NaN
    ELSE IF x.kind = "Infinity" \/ IsZero(x) THEN x
    ELSE Finite(1, 1, 0, <<"sqrt", x>>)

\* Math.log(x) of a rational number: 0 at 1, negative below 1.
MathLog(x) ==
    IF x.kind = "NaN" THEN NaN
    ELSE IF SignOf(x) < 0 THEN NaN
    ELSE IF x.kind = "Infinity" THEN x
    ELSE IF IsZero(x) THEN Infinity(-1)
    ELSE IF x.num = x.den THEN Zero
    ELSE IF x.num > x.den THEN Finite(1, 1, 0, <<"log", x>>)
    ELSE Finite(-1, 1, 0, <<"log", Rat(x.den, x.num)>>)

----------------------------------------------------------------------------
(* The turf library, by what it measures                                   *)

\* A polygon feature with the values turf measures on it: its area in square
\* metres, the length of its rings in metres, and its centroid.
Polygon(area, perimeter, x, y) ==
    [area |-> area, perimeter |-> perimeter, centroid |-> <<Rat(x, 1), Rat(y, 1)>>]

turfArea(polygon) == polygon.area

turfLength(polygon) == polygon.perimeter

PointFeature(coordinates) == [type |-> "Point", coordinates |-> coordinates]

turfCentroid(polygon) == PointFeature(polygon.centroid)

GeomReturned(value) == [status |-> "ok", value |-> value, message |-> ""]

GeomThrown(message) == [status |-> "Error", value |-> Undefined, message |-> message]

\* turf.point(coordinates): releases of the library that validate their
\* input throw on a coordinate that is not a number, the others build the
\* point.
turfPoint(coordinates, validates) ==
    IF validates /\ \E i \in 1..2 : coordinates[i].kind = "NaN"
    THEN GeomThrown("coordinates must contain numbers")
    ELSE GeomReturned(PointFeature(coordinates))

----------------------------------------------------------------------------
(* utils/geometry.ts: calculateAreaWeightedCentroid                        *)

getPolygonCentroid(polygon) == turfCentroid(polygon)

\* totalArea, weightedX and weightedY after the forEach went through
\* polygons[i..].
RECURSIVE WeightedSums(_, _, _)
WeightedSums(polygons, i, sums) ==
    IF i > Len(polygons) THEN sums
    ELSE LET area == turfArea(polygons[i])
             centroid == turfCentroid(polygons[i])
         IN WeightedSums(polygons, i + 1,
                [totalArea |-> Plus(sums.totalArea, area),
                 weightedX |-> Plus(sums.weightedX, Times(centroid.coordinates[1], area)),
                 weightedY |-> Plus(sums.weightedY, Times(centroid.coordinates[2], area))])

calculateAreaWeightedCentroid(polygons, validates) ==
    IF Len(polygons) = 0 THEN GeomThrown("No polygons provided")
    ELSE IF Len(polygons) = 1 THEN GeomReturned(getPolygonCentroid(polygons[1]))
    ELSE LET sums == WeightedSums(polygons, 1,
                         [totalArea |-> Zero, weightedX |-> Zero, weightedY |-> Zero])
         IN turfPoint(<<Over(sums.weightedX, sums.totalArea),
                        Over(sums.weightedY, sums.totalArea)>>,
                      validates)

----------------------------------------------------------------------------
(* The shape indices                                                       *)

Four == Rat(4, 1)

Two == Rat(2, 1)

\* (4 * Math.PI * area) / (perimeter * perimeter)
IsoperimetricQuotient(area, perimeter) ==
    Over(Times(Times(Four, MathPI), area), Times(perimeter, perimeter))

calculateCompactnessRatio(polygon) ==
    LET area == turfArea(polygon)
        perimeter == turfLength(polygon)
    IN IF IsZero(perimeter) THEN Zero
       ELSE IsoperimetricQuotient(area, perimeter)

calculateElongationRatio(polygon) ==
    LET area == turfArea(polygon)
        perimeter == turfLength(polygon)
    IN IF IsZero(perimeter) THEN Zero
       ELSE Over(Times(perimeter, perimeter), Times(Times(Four, MathPI), area))

calculateCircularity(polygon) ==
    LET area == turfArea(polygon)
        perimeter == turfLength(polygon)
    IN IF IsZero(perimeter) THEN Zero
       ELSE IsoperimetricQuotient(area, perimeter)

calculateFractalDimension(polygon) ==
    LET area == turfArea(polygon)
        perimeter == turfLength(polygon)
    IN IF AtMostZero(area) \/ AtMostZero(perimeter) THEN Zero
       ELSE Over(Times(Two, MathLog(perimeter)), MathLog(area))

calculateEfficiency(polygon) ==
    LET area == turfArea(polygon)
        perimeter == turfLength(polygon)
    IN IF IsZero(perimeter) THEN Zero
       ELSE IsoperimetricQuotient(area, perimeter)

calculateShapeIndex(polygon) ==
    LET area == turfArea(polygon)
        perimeter == turfLength(polygon)
    IN IF AtMostZero(area) \/ AtMostZero(perimeter) THEN Zero
       ELSE Over(perimeter, Times(Two, MathSqrt(Times(MathPI, area))))

calculateRoundness(polygon) ==
    LET area == turfArea(polygon)
        perimeter == turfLength(polygon)
    IN IF IsZero(perimeter) THEN Zero
       ELSE IsoperimetricQuotient(area, perimeter)

----------------------------------------------------------------------------
(* Inputs and calls of the geometry functions                              *)

MaxPolygons == 2

\* Polygons: all vertices at one place; all vertices on one line; and
\* polygons that enclose an area.
Polygons ==
    {Polygon(Zero, Zero, 1, 1),
     Polygon(Zero, Rat(4, 1), 2, 0),
     Polygon(Rat(1, 1), Rat(4, 1), 0, 0),
     Polygon(Rat(6, 1), Rat(10, 1), 3, 1),
     Polygon(Rat(2, 1), Rat(6, 1), -3, 2),
     Polygon(Rat(1, 2), Rat(3, 1), 1, -1)}

PolygonLists == UNION {[1..n -> Polygons] : n \in 0..MaxPolygons}

InitGeom == geomCall = [op |-> "none"]

\* No call made yet; which release of turf is installed is fixed.
InitGeomIdle ==
    \E validates \in BOOLEAN :
        geomCall = [op |-> "idle", validates |-> validates]

GeomCall(op, args, result) ==
    [op |-> op, validates |-> geomCall.validates, args |-> args, result |-> result]

CallCalculateAreaWeightedCentroid ==
    /\ geomCall.op = "idle"
    /\ \E polygons \in PolygonLists :
          geomCall' = GeomCall("calculateAreaWeightedCentroid", polygons,
                          calculateAreaWeightedCentroid(polygons, geomCall.validates))
    /\ UNCHANGED <<oldVars, par, store, upload, mapView>>

CallCalculateCompactnessRatio ==
    /\ geomCall.op = "idle"
    /\ \E polygon \in Polygons :
          geomCall' = GeomCall("calculateCompactnessRatio", <<polygon>>,
                          GeomReturned(calculateCompactnessRatio(polygon)))
    /\ UNCHANGED <<oldVars, par, store, upload, mapView>>

CallCalculateElongationRatio ==
    /\ geomCall.op = "idle"
    /\ \E polygon \in Polygons :
          geomCall' = GeomCall("calculateElongationRatio", <<polygon>>,
                          GeomReturned(calculateElongationRatio(polygon)))
    /\ UNCHANGED <<oldVars, par, store, upload, mapView>>

CallCalculateCircularity ==
    /\ geomCall.op = "idle"
    /\ \E polygon \in Polygons :
          geomCall' = GeomCall("calculateCircularity", <<polygon>>,
                          GeomReturned(calculateCircularity(polygon)))
    /\ UNCHANGED <<oldVars, par, store, upload, mapView>>

CallCalculateFractalDimension ==
    /\ geomCall.op = "idle"
    /\ \E polygon \in Polygons :
          geomCall' = GeomCall("calculateFractalDimension", <<polygon>>,
                          GeomReturned(calculateFractalDimension(polygon)))
    /\ UNCHANGED <<oldVars, par, store, upload, mapView>>

CallCalculateEfficiency ==
    /\ geomCall.op = "idle"
    /\ \E polygon \in Polygons :
          geomCall' = GeomCall("calculateEfficiency", <<polygon>>,
                          GeomReturned(calculateEfficiency(polygon)))
    /\ UNCHANGED <<oldVars, par, store, upload, mapView>>

CallCalculateShapeIndex ==
    /\ geomCall.op = "idle"
    /\ \E polygon \in Polygons :
          geomCall' = GeomCall("calculateShapeIndex", <<polygon>>,
                          GeomReturned(calculateShapeIndex(polygon)))
    /\ UNCHANGED <<oldVars, par, store, upload, mapView>>

CallCalculateRoundness ==
    /\ geomCall.op = "idle"
    /\ \E polygon \in Polygons :
          geomCall' = GeomCall("calculateRoundness", <<polygon>>,
                          GeomReturned(calculateRoundness(polygon)))
    /\ UNCHANGED <<oldVars, par, store, upload, mapView>>

NextGeom ==
    \/ CallCalculateAreaWeightedCentroid
    \/ CallCalculateCompactnessRatio
    \/ CallCalculateElongationRatio
    \/ CallCalculateCircularity
    \/ CallCalculateFractalDimension
    \/ CallCalculateEfficiency
    \/ CallCalculateShapeIndex
    \/ CallCalculateRoundness

----------------------------------------------------------------------------
(* Specifications                                                          *)

\* Nothing has run yet in the models a specification does not use.
InitRest == InitPar /\ InitStore /\ InitUpload /\ InitMapView /\ InitGeom

\* The search operations applied to every layer set of the inputs; the
\* colour table is not touched.
InitSearchSpec == InitSearch /\ InitColor /\ InitUtil /\ InitHook /\ InitRest

SpecSearch == InitSearchSpec /\ [][NextSearch]_vars

\* The colour assignment table alone: no search call is made.
InitColorSpec ==
    InitColor /\ searchLayers = <<>> /\ call = NoCall /\ InitUtil /\ InitHook /\ InitRest

SpecColor == InitColorSpec /\ [][NextColor]_vars

\* The layerUtils functions, one call on one input; nothing else runs.
InitUtilSpec ==
    InitUtil /\ searchLayers = <<>> /\ call = NoCall /\ InitColor /\ InitHook /\ InitRest

SpecUtil == InitUtilSpec /\ [][NextUtil]_vars

\* One component that uses useMapLayers with no initial layers.
InitHookSpec ==
    InitHook /\ searchLayers = <<>> /\ call = NoCall /\ InitColor /\ InitUtil /\ InitRest

SpecHook == InitHookSpec /\ [][NextHook]_vars

\* Two threads that call getLayerColor, in atomic or in parallel mode.
InitParSpec ==
    /\ InitParModes
    /\ searchLayers = <<>> /\ call = NoCall
    /\ InitColor /\ InitUtil /\ InitHook
    /\ InitStore /\ InitUpload /\ InitMapView /\ InitGeom

SpecPar == InitParSpec /\ [][NextPar]_vars

InitStoreSpec ==
    /\ InitStoreState
    /\ searchLayers = <<>> /\ call = NoCall
    /\ InitColor /\ InitUtil /\ InitHook
    /\ InitPar /\ InitUpload /\ InitMapView /\ InitGeom

SpecStore == InitStoreSpec /\ [][NextStore]_vars

InitUploadSpec ==
    /\ InitUploadDialog
    /\ searchLayers = <<>> /\ call = NoCall
    /\ InitColor /\ InitUtil /\ InitHook
    /\ InitPar /\ InitStore /\ InitMapView /\ InitGeom

SpecUpload == InitUploadSpec /\ [][NextUpload]_vars

InitMapViewSpec ==
    /\ InitMapViewRendered
    /\ searchLayers = <<>> /\ call = NoCall
    /\ InitColor /\ InitUtil /\ InitHook
    /\ InitPar /\ InitStore /\ InitUpload /\ InitGeom

SpecMapView == InitMapViewSpec /\ [][NextMapView]_vars

\* React runs the effect after the render that mounted the component, and
\* the event loop fires every timer that stays pending.
SpecMapViewFair ==
    /\ InitMapViewSpec
    /\ [][NextMapView]_vars
    /\ WF_vars(MountEffect)
    /\ WF_vars(RetryTimer)

InitGeomSpec ==
    /\ InitGeomIdle
    /\ searchLayers = <<>> /\ call = NoCall
    /\ InitColor /\ InitUtil /\ InitHook
    /\ InitPar /\ InitStore /\ InitUpload /\ InitMapView

SpecGeom == InitGeomSpec /\ [][NextGeom]_vars

----------------------------------------------------------------------------
(* Properties of searchAcrossLayers and getSearchSuggestions               *)

\* The search call of this state returned a list.
SearchReturned ==
    /\ call.op \in {"searchAcrossLayers", "globalSearchResults"}
    /\ call.result.status = "ok"

callFuzzyMatch == Opt(call.options, "fuzzyMatch", FALSE)

callCaseSensitive == Opt(call.options, "caseSensitive", FALSE)

callIncludeFeatureNames == Opt(call.options, "includeFeatureNames", TRUE)

callIncludeFeatureIds == Opt(call.options, "includeFeatureIds", TRUE)

\* A string normalised as the call normalises the query.
Normalized(s) == IF callCaseSensitive THEN s ELSE toLowerCase(s)

\* The band table of the specification.
BandTable ==
    [layer |-> [exact |-> 100, contains |-> 50, fuzzy |-> 25, none |-> 0],
     featureName |-> [exact |-> 90, contains |-> 40, fuzzy |-> 20, none |-> 0],
     featureId |-> [exact |-> 80, contains |-> 30, fuzzy |-> 15, none |-> 0]]

\* SubSeq(q, 1, 3) needs three characters; shorter queries are their own prefix.
QueryPrefix(q) == IF Len(q) <= 3 THEN q ELSE SubSeq(q, 1, 3)

\* The first of the three tests that one of the candidate strings passes
\* against the normalised query of the call.
TestOf(candidates) ==
    LET q == Normalized(call.query)
    IN IF q \in candidates THEN "exact"
       ELSE IF \E c \in candidates : includes(c, q) THEN "contains"
       ELSE IF callFuzzyMatch /\ \E c \in candidates : includes(c, QueryPrefix(q))
            THEN "fuzzy"
       ELSE "none"

MatchRank(matchType) ==
    CASE matchType = "exact" -> 3
      [] matchType = "contains" -> 2
      [] matchType = "fuzzy" -> 1

ResultFeature(r) == searchLayers[r.li].data.features.items[r.fi]

\* The band the table gives to the candidate behind the result r.
LayerBandOk(r) ==
    LET t == TestOf({Normalized(searchLayers[r.li].name), Normalized(searchLayers[r.li].id)})
    IN /\ t # "none"
       /\ r.matchType = t
       /\ r.relevance = BandTable.layer[t]

FeatureBandOk(r) ==
    LET byName == IF callIncludeFeatureNames
                  THEN TestOf({Normalized(ResolveFeatureName(searchLayers[r.li],
                                                             ResultFeature(r)))})
                  ELSE "none"
        byId == IF callIncludeFeatureIds
                THEN TestOf({Normalized(ResolveFeatureId(ResultFeature(r)))})
                ELSE "none"
    IN IF byName # "none"
       THEN r.matchType = byName /\ r.relevance = BandTable.featureName[byName]
       ELSE /\ byId # "none"
            /\ r.matchType = byId
            /\ r.relevance = BandTable.featureId[byId]

\* C1: every result of searchAcrossLayers carries the match type and the
\* relevance the band table gives to its candidate (layer 100/50/25, feature
\* matched by name 90/40/20, feature matched by id 80/30/15), no result fails
\* all three tests, every exact result outranks every contains result, which
\* outranks every fuzzy result, and no result is fuzzy when fuzzyMatch is off.
C1_BandTable ==
    SearchReturned =>
        LET res == call.result.value
        IN /\ \A k \in 1..Len(res) :
                 IF res[k].type = "layer" THEN LayerBandOk(res[k])
                 ELSE FeatureBandOk(res[k])
           /\ \A i, j \in 1..Len(res) :
                 MatchRank(res[i].matchType) > MatchRank(res[j].matchType)
                    => res[i].relevance > res[j].relevance /\ i < j
           /\ ~callFuzzyMatch => \A k \in 1..Len(res) : res[k].matchType # "fuzzy"

\* A search whose results cover the layer bands 100 and 25 and all six
\* feature bands.
C1_Witness ==
    /\ SearchReturned
    /\ call.op = "searchAcrossLayers"
    /\ {100, 25, 90, 40, 20, 80, 30, 15}
          \subseteq {call.result.value[k].relevance : k \in 1..Len(call.result.value)}

\* The position of the candidate behind r in the original order: layers in
\* registry order, features by owning layer and then by position.
Precedes(r1, r2) ==
    \/ r1.li < r2.li
    \/ r1.li = r2.li /\ r1.fi < r2.fi

\* C2: the returned list is in non-increasing relevance order and results
\* of equal relevance keep their original order (layers in registry order,
\* features by owning layer, then by position inside the layer).
C2_SortedStable ==
    SearchReturned =>
        LET res == call.result.value
        IN \A i, j \in 1..Len(res) :
              i < j =>
                 /\ res[i].relevance >= res[j].relevance
                 /\ (res[i].relevance = res[j].relevance
                       /\ res[i].type = res[j].type) => Precedes(res[i], res[j])

\* A search where features of two layers tie and where a feature result was
\* sorted in front of a layer result.
C2_Witness ==
    /\ SearchReturned
    /\ LET res == call.result.value
       IN /\ \E i, j \in 1..Len(res) :
                /\ i < j
                /\ res[i].relevance = res[j].relevance
                /\ res[i].type = "feature"
                /\ res[i].li # res[j].li
          /\ \E i, j \in 1..Len(res) :
                i < j /\ res[i].type = "feature" /\ res[j].type = "layer"

Max(a, b) == IF a >= b THEN a ELSE b

\* C3: one call returns no duplicates: at most one layer result per layer,
\* carrying the higher of the bands of its name and of its id, and at most
\* one feature result per feature.
C3_NoDuplicates ==
    SearchReturned =>
        LET res == call.result.value
        IN /\ \A i, j \in 1..Len(res) :
                 (i # j /\ res[i].type = res[j].type)
                    => (res[i].li # res[j].li \/ res[i].fi # res[j].fi)
           /\ \A k \in 1..Len(res) :
                 res[k].type = "layer" =>
                    res[k].relevance =
                       Max(BandTable.layer[TestOf({Normalized(searchLayers[res[k].li].name)})],
                           BandTable.layer[TestOf({Normalized(searchLayers[res[k].li].id)})])

\* A search that returned a layer whose name and id match in different
\* bands and a feature whose name and id both match.
C3_Witness ==
    /\ SearchReturned
    /\ LET res == call.result.value
       IN /\ \E k \in 1..Len(res) :
                /\ res[k].type = "layer"
                /\ TestOf({Normalized(searchLayers[res[k].li].name)}) = "contains"
                /\ TestOf({Normalized(searchLayers[res[k].li].id)}) = "exact"
          /\ \E k \in 1..Len(res) :
                /\ res[k].type = "feature"
                /\ callIncludeFeatureNames /\ callIncludeFeatureIds
                /\ FeatureIdValue(ResultFeature(res[k])).t = "string"
                /\ TestOf({Normalized(ResolveFeatureName(searchLayers[res[k].li],
                                                         ResultFeature(res[k])))}) # "none"
                /\ TestOf({Normalized(ResolveFeatureId(ResultFeature(res[k])))}) # "none"

\* The number of candidates of a search: every layer and every feature.
CandidateCount ==
    Len(searchLayers)
    + Cardinality({<<li, fi>> \in (1..Len(searchLayers)) \X (1..BigLen) :
                      fi <= Len(searchLayers[li].data.features.items)})

\* The sorted list of all matches of the call: the same search without a
\* limit that could cut it.
SortedMatches ==
    searchAcrossLayers(searchLayers, call.query,
                       WithMaxResults(call.options, CandidateCount)).value

\* res is the first limit entries of full, all of them when there are fewer.
IsPrefixOfLength(res, full, limit) ==
    /\ Len(res) = (IF limit < Len(full) THEN limit ELSE Len(full))
    /\ \A k \in 1..Len(res) : res[k] = full[k]

\* C4 as claimed: the result is the first maxResults entries of the sorted
\* match list, and the limit is 50 when the caller configures none.
C4_Original ==
    (call.op = "searchAcrossLayers" /\ call.result.status = "ok") =>
        IsPrefixOfLength(call.result.value, SortedMatches,
                         Opt(call.options, "maxResults", 50))

\* C4: searchAcrossLayers returns exactly the first maxResults entries of
\* the sorted match list (all of them when there are fewer), never more; the
\* limit is 100 when the caller configures none, and the combined search of
\* FeatureSearchPanel configures 50.
C4_Truncation ==
    /\ (call.op = "searchAcrossLayers" /\ call.result.status = "ok") =>
          /\ IsPrefixOfLength(call.result.value, SortedMatches,
                              Opt(call.options, "maxResults", 100))
          /\ Len(call.result.value) <= Opt(call.options, "maxResults", 100)
    /\ (call.op = "globalSearchResults" /\ call.result.status = "ok"
          /\ call.searchType = "all") =>
          /\ IsPrefixOfLength(call.result.value, SortedMatches, 50)
          /\ call.options.maxResults = 50

\* A search without maxResults over more than 100 matches, cut to 100.
C4_Witness ==
    /\ call.op = "searchAcrossLayers"
    /\ call.result.status = "ok"
    /\ "maxResults" \notin DOMAIN call.options
    /\ Len(SortedMatches) > 100
    /\ Len(call.result.value) = 100

\* The layers with every features value that is not a sequence replaced by
\* no features at all.
WithoutBadFeatures ==
    [li \in 1..Len(searchLayers) |->
        IF searchLayers[li].data.features.kind = "array" THEN searchLayers[li]
        ELSE [searchLayers[li] EXCEPT !.data.features = FeatureArray(<<>>)]]

\* C5: searchAcrossLayers and getSearchSuggestions do not raise because of a
\* layer whose data.features is missing or not a sequence: such a layer
\* contributes no feature candidates and the matches of the other layers
\* (and the layer-name matches) are returned.
C5_BadLayerTolerated ==
    /\ call.op = "searchAcrossLayers" =>
          call.result = searchAcrossLayers(WithoutBadFeatures, call.query,
                                           call.options)
    /\ call.op = "getSearchSuggestions" =>
          call.result = getSearchSuggestions(WithoutBadFeatures, call.query,
                                             call.maxSuggestions)
    /\ call.result.status = "ok"

\* The combined search of the test suite: the fixture, "Ahupuaa", mode all.
FixtureSearch ==
    /\ searchLayers = mockLayers
    /\ call.op = "globalSearchResults"
    /\ call.searchType = "all"
    /\ call.query = s_Ahupuaa

FixtureResultOk ==
    FixtureSearch =>
        /\ call.result.status = "ok"
        /\ Len(call.result.value) = 3
        /\ call.result.value[1].type = "layer"
        /\ call.result.value[1].li = 1
        /\ call.result.value[2].type = "feature"
        /\ call.result.value[3].type = "feature"

\* The result r is a layer whose name passes one of the given tests.
LayerNameMatch(r, tests) ==
    /\ r.type = "layer"
    /\ TestOf({Normalized(searchLayers[r.li].name)}) \in tests

\* The result r is a feature matched by containment of its name.
FeatureNameContains(r) ==
    /\ r.type = "feature"
    /\ r.matchType = "contains"
    /\ r.relevance = BandTable.featureName.contains

\* Every layer-name match of the given tests is in front of every feature
\* matched by containment of its name.
LayerNameFirst(tests) ==
    SearchReturned =>
        LET res == call.result.value
        IN \A i, j \in 1..Len(res) :
              (LayerNameMatch(res[i], tests) /\ FeatureNameContains(res[j]))
                 => i < j

\* C6 as claimed: the fixture search returns 3 results, the layer first, and
\* every layer-name match is ranked above every feature-name contains match.
C6_Original ==
    /\ FixtureResultOk
    /\ LayerNameFirst({"exact", "contains", "fuzzy"})

\* C6: the fixture search returns exactly 3 results, 1 layer and 2 features,
\* the layer first; in general a layer whose name matches exactly or by
\* containment is ranked above every feature-name contains match (a fuzzy
\* layer-name match, band 25, is ranked below it).
C6_FixtureRanking ==
    /\ FixtureResultOk
    /\ LayerNameFirst({"exact", "contains"})

\* The fixture search has run: its layer is matched by containment of its
\* name and is in front of two features matched by containment.
C6_Witness ==
    /\ FixtureSearch
    /\ Len(call.result.value) = 3
    /\ LayerNameMatch(call.result.value[1], {"contains"})
    /\ FeatureNameContains(call.result.value[2])
    /\ FeatureNameContains(call.result.value[3])

\* The strings getSearchSuggestions may suggest, in order: each layer's name
\* then id, then the name-property values of the features.
RECURSIVE LayerCandidates(_)
LayerCandidates(li) ==
    IF li > Len(searchLayers) THEN <<>>
    ELSE <<searchLayers[li].name, searchLayers[li].id>> \o LayerCandidates(li + 1)

FeatureNameValues(li) ==
    LET items == searchLayers[li].data.features.items
        named == SelectSeq(Indices(Len(items)),
                           LAMBDA fi : LET v == Prop(items[fi], searchLayers[li].nameProperty)
                                       IN Truthy(v) /\ v.t = "string")
    IN [k \in 1..Len(named) |-> Prop(items[named[k]], searchLayers[li].nameProperty).s]

RECURSIVE FeatureCandidates(_)
FeatureCandidates(li) ==
    IF li > Len(searchLayers) THEN <<>>
    ELSE FeatureNameValues(li) \o FeatureCandidates(li + 1)

\* The candidates that contain the query case-insensitively, each kept at
\* its first occurrence only.
ExpectedSuggestions ==
    LET all == LayerCandidates(1) \o FeatureCandidates(1)
        q == toLowerCase(call.query)
        keep == SelectSeq(Indices(Len(all)),
                          LAMBDA i : /\ includes(toLowerCase(all[i]), q)
                                     /\ \A j \in 1..(i - 1) : all[j] # all[i])
    IN [k \in 1..Len(keep) |-> all[keep[k]]]

SuggestionLimit ==
    IF call.maxSuggestions = Undefined THEN 10 ELSE call.maxSuggestions.n

----------------------------------------------------------------------------
(* Properties of the colour assignment table                               *)

\* C8: two consecutive getLayerColor calls for the same layer id, with no
\* reset in between, return the identical ColorInfo: the same color, name
\* and description.
C8_Idempotent ==
    [][(lastGet.id # 0 /\ lastGet'.id = lastGet.id)
          => lastGet'.info = lastGet.info]_vars

\* C9: while at most as many layer ids as the palette has entries hold a
\* colour, no two distinct layer ids hold the same colour.
C9_UniqueColors ==
    Cardinality(DOMAIN assignedColors) <= Len(LAYER_COLORS) =>
        \A a, b \in DOMAIN assignedColors :
           a # b => assignedColors[a] # assignedColors[b]

\* C10: once a layer id holds a colour, every step other than
\* resetColorAssignments leaves it that colour, and every getLayerColor call
\* for that id returns it, whatever calls for this and other ids happen in
\* between.
C10_ColorKept ==
    [][\A id \in DOMAIN assignedColors :
          ret'.op # "resetColorAssignments" =>
             /\ id \in DOMAIN assignedColors'
             /\ assignedColors'[id] = assignedColors[id]
             /\ (ret'.op = "getLayerColor" /\ ret'.id = id)
                   => ret'.info.color = assignedColors[id]]_vars

\* The first layer id is asked for again after the palette has been used up
\* by other ids, and gets the colour it holds.
C10_Witness ==
    /\ ret.op = "getLayerColor"
    /\ ret.id = 1
    /\ Cardinality(DOMAIN assignedColors) > Len(LAYER_COLORS)
    /\ ret.info.color = assignedColors[1]
    /\ ret.info.color = LAYER_COLORS[1].color

\* Every colour of the palette is held by some layer id.
PaletteUsedUp(assigned) ==
    \A i \in 1..Len(LAYER_COLORS) :
       LAYER_COLORS[i].color \in AssignedValues(assigned)

\* C11: when every palette colour is held by some layer, getLayerColor for a
\* new layer id records an assignment for it and returns
\* LAYER_COLORS[n mod L], n being the number of ids assigned before the call
\* and L the palette length, so that successive new ids walk the palette in
\* its order.
C11_WrapAround ==
    [][(/\ ret'.op = "getLayerColor"
        /\ ret'.id \notin DOMAIN assignedColors
        /\ PaletteUsedUp(assignedColors)) =>
          LET n == Cardinality(DOMAIN assignedColors)
              entry == LAYER_COLORS[(n % Len(LAYER_COLORS)) + 1]
          IN /\ ret'.info = entry
             /\ assignedColors' = MapSet(assignedColors, ret'.id, entry.color)
             /\ Cardinality(DOMAIN assignedColors') = n + 1]_vars

\* A new layer id arrives after the palette was used up and the index has
\* gone round once: the id gets the first palette entry, which another id
\* holds already.
C11_Witness ==
    /\ ret.op = "getLayerColor"
    /\ ret.id = Len(LAYER_COLORS) + 1
    /\ Cardinality(DOMAIN assignedColors) = Len(LAYER_COLORS) + 1
    /\ ret.info = LAYER_COLORS[1]
    /\ assignedColors[ret.id] = assignedColors[1]

\* C12: resetColorAssignments empties the table whatever it held: right
\* after it getAssignedColors is empty, isColorAvailable is true for every
\* colour, and a getLayerColor call for any layer id returns the first
\* palette entry.
C12_ResetClears ==
    [][/\ ret'.op = "resetColorAssignments" =>
             /\ getAssignedColors(assignedColors') = EmptyMap
             /\ \A color \in ColorArgs \cup AssignedValues(assignedColors) :
                   isColorAvailable(assignedColors', color)
             /\ \A layerId \in LayerIds :
                   getLayerColor(assignedColors', layerId).info = LAYER_COLORS[1]
       /\ ret.op = "resetColorAssignments" =>
             /\ ret'.op = "getAssignedColors" => ret'.map = EmptyMap
             /\ ret'.op = "isColorAvailable" => ret'.available
             /\ ret'.op = "getLayerColor" => ret'.info = LAYER_COLORS[1]]_vars

\* The table is cleared when it holds more layer ids than the palette has
\* entries.
C12_Witness ==
    /\ ret.op = "resetColorAssignments"
    /\ ret.size > Len(LAYER_COLORS)
    /\ assignedColors = EmptyMap

----------------------------------------------------------------------------
(* Properties of validateLayer, mergeLayers, getLayerFeatureNames and      *)
(* filterLayerFeatures                                                     *)

\* The validateLayer call of this state reported the message.
Reported(message) ==
    \E i \in 1..Len(utilCall.result.value.errors) :
       utilCall.result.value.errors[i] = message

\* The layer of the validateLayer call lacks both id and name and passes
\* validation once it is given both.
LacksOnlyIdAndName ==
    /\ ~Truthy(utilCall.layer.id)
    /\ ~Truthy(utilCall.layer.name)
    /\ validateLayer([utilCall.layer EXCEPT !.id = Str(s_k1),
                                            !.name = Str(s_ab)]).isValid

\* C16: validateLayer of a layer record returns normally and reports every
\* violated check of the call, each once: isValid is true exactly when
\* errors is empty, and a layer that lacks both id and name and is otherwise
\* valid gets isValid = false and exactly two errors.
C16_AllViolations ==
    utilCall.op = "validateLayer" =>
       LET layer == utilCall.layer
           r == utilCall.result.value
       IN /\ utilCall.result.status = "ok"
          /\ r.isValid <=> (r.errors = <<>>)
          /\ ~Truthy(layer.id) => Reported("Layer ID is required")
          /\ ~Truthy(layer.name) => Reported("Layer name is required")
          /\ layer.data = Undefined => Reported("Layer data is required")
          /\ ~Truthy(layer.nameProperty) => Reported("Name property is required")
          /\ (layer.data # Undefined /\ layer.data.type # Str(s_FeatureCollection))
                => Reported("Layer data must be a FeatureCollection")
          /\ (layer.data # Undefined /\ layer.data.features.kind = "object")
                => Reported("Layer features must be an array")
          /\ \A i, j \in 1..Len(r.errors) : i # j => r.errors[i] # r.errors[j]
          /\ LacksOnlyIdAndName => (~r.isValid /\ Len(r.errors) = 2)

\* A layer without id and name, otherwise valid, gets the two messages.
C16_Witness ==
    /\ utilCall.op = "validateLayer"
    /\ LacksOnlyIdAndName
    /\ utilCall.result.value.errors
          = <<"Layer ID is required", "Layer name is required">>
    /\ ~utilCall.result.value.isValid

\* C17: validateLayer(layer).isValid is true only if the layer has an id, a
\* name, a nameProperty and a data object whose type is FeatureCollection
\* and whose features is a sequence; a layer whose data.features is not a
\* sequence is not valid.
C17_ValidImpliesWellFormed ==
    utilCall.op = "validateLayer" =>
       LET layer == utilCall.layer
           r == utilCall.result.value
       IN /\ r.isValid =>
                /\ Truthy(layer.id)
                /\ Truthy(layer.name)
                /\ Truthy(layer.nameProperty)
                /\ layer.data # Undefined
                /\ layer.data.type = Str(s_FeatureCollection)
                /\ layer.data.features.kind = "array"
          /\ (layer.data # Undefined /\ layer.data.features.kind # "array")
                => ~r.isValid

\* The feature sequence of a layer; a layer without features has none.
FeatureItems(layer) ==
    IF layer.data.features.kind = "array" THEN layer.data.features.items
    ELSE <<>>

\* The number of features in the layers before layers[i].
RECURSIVE FeaturesBefore(_, _)
FeaturesBefore(layers, i) ==
    IF i <= 1 THEN 0
    ELSE FeaturesBefore(layers, i - 1) + Len(FeatureItems(layers[i - 1]))

\* C18: mergeLayers returns a new layer with the given id and name,
\* nameProperty 'name', and the features of the input layers one layer after
\* the other, in input order and in each layer's own order, as many as the
\* inputs have together; the input layers and their feature sequences are
\* as before the call.
C18_MergeConcatenates ==
    (/\ utilCall.op = "mergeLayers"
     /\ \A i \in 1..Len(utilCall.layers) :
           utilCall.layers[i].data.features.kind # "object") =>
       LET layers == utilCall.layers
           merged == utilCall.result.value
       IN /\ utilCall.result.status = "ok"
          /\ merged.id = utilCall.mergedId
          /\ merged.name = utilCall.mergedName
          /\ merged.nameProperty = "name"
          /\ merged.data.features.kind = "array"
          /\ Len(merged.data.features.items)
                = FeaturesBefore(layers, Len(layers) + 1)
          /\ \A li \in 1..Len(layers) :
                \A fi \in 1..Len(FeatureItems(layers[li])) :
                   merged.data.features.items[FeaturesBefore(layers, li) + fi]
                      = FeatureItems(layers[li])[fi]
          /\ utilCall.result.layers = layers

\* Two layers with different features are merged, the second one first.
C18_Witness ==
    /\ utilCall.op = "mergeLayers"
    /\ utilCall.result.status = "ok"
    /\ Len(utilCall.layers) = 2
    /\ Len(FeatureItems(utilCall.layers[1])) = 3
    /\ Len(FeatureItems(utilCall.layers[2])) = 2
    /\ Len(utilCall.result.value.data.features.items) = 5
    /\ utilCall.result.value.data.features.items[4]
          = FeatureItems(utilCall.layers[2])[1]
    /\ utilCall.result.value.id = s_k4

\* The first of the values that is present, or the empty string.
RECURSIVE FirstPresent(_)
FirstPresent(values) ==
    IF Len(values) = 0 THEN Str(<<>>)
    ELSE IF Head(values) # Undefined THEN Head(values)
    ELSE FirstPresent(Tail(values))

\* C19: getLayerFeatureNames returns one entry per feature in feature
\* order; name is properties[layer.nameProperty], or 'Unnamed Feature' when
\* that property is absent; id is the first value present among
\* properties.objectid, properties.id and feature.id, or the empty string
\* when none is present.
C19_NamesAndIds ==
    (/\ utilCall.op = "getLayerFeatureNames"
     /\ utilCall.layer.data.features.kind = "array") =>
       LET layer == utilCall.layer
           items == layer.data.features.items
       IN /\ utilCall.result.status = "ok"
          /\ Len(utilCall.result.value) = Len(items)
          /\ \A i \in 1..Len(items) :
                LET entry == utilCall.result.value[i]
                    named == Prop(items[i], layer.nameProperty)
                IN /\ entry.feature = items[i]
                   /\ entry.name = IF named = Undefined
                                   THEN Str(UnnamedFeature) ELSE named
                   /\ entry.id = FirstPresent(<<Prop(items[i], "objectid"),
                                                Prop(items[i], "id"),
                                                items[i].id>>)

\* The name of a feature as the filter is to see it: the value of the name
\* property, 'Unnamed Feature' when the property is absent.
NameToFilter(layer, feature) ==
    LET named == Prop(feature, layer.nameProperty)
    IN IF named = Undefined THEN UnnamedFeature
       ELSE IF named.t = "string" THEN named.s
       ELSE <<>>

\* C20: for a layer with a feature sequence, filterLayerFeatures returns
\* the whole sequence, as it is, when the term is empty or blank; otherwise
\* it returns, in the original order, exactly the features whose resolved
\* name contains the term, case-insensitively.
C20_FilterByName ==
    (/\ utilCall.op = "filterLayerFeatures"
     /\ utilCall.layer.data.features.kind = "array") =>
       LET layer == utilCall.layer
           items == layer.data.features.items
           term == utilCall.searchTerm
       IN /\ utilCall.result.status = "ok"
          /\ utilCall.result.value.kind = "array"
          /\ utilCall.result.value.items =
                IF \A i \in 1..Len(term) : term[i] \in WhiteSpace
                THEN items
                ELSE SelectSeq(items,
                        LAMBDA feature :
                           includes(toLowerCase(NameToFilter(layer, feature)),
                                    toLowerCase(term)))

----------------------------------------------------------------------------
(* Properties of the useMapLayers registry                                 *)

UniqueIds(layers) ==
    \A i, j \in 1..Len(layers) : i # j => layers[i].id # layers[j].id

\* C13: after any sequence of addLayer, loadLayerFromGeoJSON, removeLayer,
\* updateLayer and clearLayers no two layers of the list have the same id,
\* and no call changes the id of a layer that is in the list.
C13_IdsUniqueAndFixed ==
    [][/\ UniqueIds(hookLayers')
       /\ hookRet'.op = "updateLayer" =>
             /\ Len(hookLayers') = Len(hookLayers)
             /\ \A i \in 1..Len(hookLayers) :
                   hookLayers'[i].id = hookLayers[i].id]_vars

\* C14: addLayer with a valid layer whose id is in the list leaves the list
\* as it is; with a valid layer whose id is new it appends the layer and
\* leaves the earlier layers and their order as they are.
C14_AddLayerFrame ==
    [][(/\ hookRet'.op \in {"addLayer", "loadLayerFromGeoJSON"}
        /\ validateLayer(hookRet'.layer).isValid) =>
          IF \E i \in 1..Len(hookLayers) : hookLayers[i].id = hookRet'.layer.id
          THEN hookLayers' = hookLayers
          ELSE /\ Len(hookLayers') = Len(hookLayers) + 1
               /\ hookLayers'[Len(hookLayers')] = hookRet'.layer
               /\ \A i \in 1..Len(hookLayers) : hookLayers'[i] = hookLayers[i]]_vars

\* addLayer was called with a valid layer whose id a different layer of the
\* list has: that layer is still there, at its place after another layer.
C14_Witness ==
    /\ hookRet.op = "addLayer"
    /\ hookRet.result
    /\ Len(hookLayers) = 2
    /\ hookLayers[2].id = hookRet.layer.id
    /\ hookLayers[2] # hookRet.layer
    /\ hookLayers[1] # hookRet.layer

\* C15: removeLayer(id) with an id that no layer of the list has leaves the
\* list and the active layer as they are; with an id that is in the list it
\* removes that layer and keeps the other layers in their order.
C15_RemoveLayerFrame ==
    [][hookRet'.op = "removeLayer" =>
          IF \E i \in 1..Len(hookLayers) : hookLayers[i].id = hookRet'.layerId
          THEN hookLayers' = SelectSeq(hookLayers,
                                LAMBDA l : l.id # hookRet'.layerId)
          ELSE /\ hookLayers' = hookLayers
               /\ hookActive' = hookActive
               /\ deferred' = deferred]_vars

\* C27: after any sequence of addLayer, removeLayer, updateLayer,
\* setActiveLayerById and clearLayers, several of them possibly made within
\* one render, the activeLayer the component renders with is null or has
\* the id of a layer that is in the layer list.
C27_ActiveInList ==
    batch = 0 => (hookActive = Null \/ SomeId(hookLayers, hookActive.id))

----------------------------------------------------------------------------
(* Properties of getLayerColor under two threads                           *)

\* Both threads have completed a call for a new layer id, the two ids
\* differ, and both scanned the same table before either wrote.
BothScannedBeforeWrite ==
    /\ par.threads[1].pc = "idle" /\ par.threads[1].wrote
    /\ par.threads[2].pc = "idle" /\ par.threads[2].wrote
    /\ par.threads[1].id # par.threads[2].id
    /\ par.threads[1].seen = par.threads[2].seen

\* Two layer ids of the table hold one colour while a palette colour is
\* held by no layer id.
CollisionWithFreeColors ==
    /\ \E a, b \in DOMAIN par.table : a # b /\ par.table[a] = par.table[b]
    /\ ~PaletteUsedUp(par.table)

\* C25: when two getLayerColor calls for distinct layer ids that are not in
\* the table both scan the table before either writes, both ids get the
\* same colour; when every call is one atomic step no two layer ids hold
\* the same colour while palette colours are unassigned.
C25_ParallelCollision ==
    /\ (par.mode = "parallel" /\ BothScannedBeforeWrite) =>
          /\ par.threads[1].info.color = par.threads[2].info.color
          /\ par.table[par.threads[1].id] = par.table[par.threads[2].id]
    /\ par.mode = "atomic" => ~CollisionWithFreeColors

\* Two threads scanned the empty table and wrote: both layer ids hold the
\* first palette colour, the others are free.
C25_Witness ==
    /\ par.mode = "parallel"
    /\ BothScannedBeforeWrite
    /\ par.threads[1].seen = EmptyMap
    /\ CollisionWithFreeColors
    /\ par.table[par.threads[1].id] = LAYER_COLORS[1].color
    /\ par.table[par.threads[2].id] = LAYER_COLORS[1].color

----------------------------------------------------------------------------
(* Properties of the search over features with numeric values              *)

\* Every layer of the registry holds its features in a sequence, or holds
\* none.
FeaturesWellFormed ==
    \A li \in 1..Len(searchLayers) : searchLayers[li].data.features.kind # "object"

\* C26: searchAcrossLayers completes without raising for every layer set
\* whose features are sequences, also when a feature carries a number as
\* feature.id, properties.id, properties.objectid or as the value of the name
\* property.
C26_NumericTolerated ==
    (/\ call.op \in {"searchAcrossLayers", "globalSearchResults"}
     /\ FeaturesWellFormed)
        => call.result.status = "ok"

----------------------------------------------------------------------------
(* Properties of the feature store                                         *)

\* The properties a merge of given over existing must produce: the given
\* keys with the given values, every other existing key with its value.
IsMergeOf(result, existing, given) ==
    /\ ~result.null
    /\ DOMAIN result.map = DOMAIN existing.map \cup DOMAIN given
    /\ \A key \in DOMAIN given : result.map[key] = given[key]
    /\ \A key \in DOMAIN existing.map \ DOMAIN given :
          result.map[key] = existing.map[key]

\* C23: updateFeatureProperties({id, properties}) for an id in the store
\* merges the given properties over the existing ones of that feature (given
\* keys overwritten or added, all other keys kept), keeps every other feature
\* and currentArea; for an id that is not in the store the whole state stays
\* as it was.
C23_UpdatePropertiesFrame ==
    [][(store.op = "store" /\ store'.last.type = "updateFeatureProperties") =>
          LET old == store.state
              new == store'.state
              payload == store'.last.payload
          IN IF HasKey(old.features, payload.id)
             THEN /\ Len(new.features) = Len(old.features)
                  /\ \A i \in 1..Len(old.features) :
                        IF old.features[i].id.s = payload.id
                        THEN /\ new.features[i].id = old.features[i].id
                             /\ IsMergeOf(new.features[i].properties,
                                          old.features[i].properties,
                                          payload.properties)
                        ELSE new.features[i] = old.features[i]
                  /\ new.currentArea = old.currentArea
             ELSE new = old]_vars

\* An update of one of two stored features, with a current area set, that
\* overwrote one key and kept another.
C23_Witness ==
    /\ store.op = "store"
    /\ store.last.type = "updateFeatureProperties"
    /\ Len(store.state.features) = 2
    /\ store.state.currentArea = Num(5)
    /\ \E i \in 1..2 :
          /\ store.state.features[i].id.s = store.last.payload.id
          /\ DOMAIN store.last.payload.properties = {"name"}
          /\ store.state.features[i].properties.map =
                [name |-> Num(3), area |-> Num(1)]

\* C28: geojson.features holds exactly the features of the id-keyed features
\* map: the same number of entries, one per stored id, and no feature that
\* is absent from the map.
C28_GeojsonMirrorsMap ==
    store.op = "store" =>
        LET features == store.state.features
            listed == store.state.geojson.features
        IN /\ Len(listed) = Len(features)
           /\ \A i \in 1..Len(features) :
                 \E j \in 1..Len(listed) : listed[j] = features[i]
           /\ \A j \in 1..Len(listed) :
                 \E i \in 1..Len(features) : features[i] = listed[j]

----------------------------------------------------------------------------
(* Properties of the upload dialog                                         *)

\* The onUpload calls made for the i-th chosen file.
CallsFor(u, i) ==
    SelectSeq(u.onUploadCalls, LAMBDA c : c.upload = i)

\* C24: a file that is rejected or whose processing throws ends with the
\* error message set and uploading false, and onUpload is never called for
\* it; the start of the next upload clears the error; a file that processes
\* successfully leads to exactly one onUpload call, with the produced layer.
C24_ErrorHandling ==
    [][upload.op = "dialog" =>
          /\ \A i \in 1..Len(upload'.uploads) :
                LET before == IF i <= Len(upload.uploads) THEN upload.uploads[i].pc
                              ELSE "none"
                    after == upload'.uploads[i].pc
                    calls == CallsFor(upload', i)
                IN /\ (after \in {"rejected", "failed"} /\ before # after) =>
                         /\ upload'.error # Null
                         /\ Len(upload'.error.s) > 0
                         /\ ~upload'.uploading
                   /\ after \in {"rejected", "failed"} => Len(calls) = 0
                   /\ (after = "processing" /\ before = "none") => upload'.error = Null
                   /\ after \in {"processing", "timer"} => Len(calls) = 0
                   /\ after = "done" =>
                         /\ Len(calls) = 1
                         /\ calls[1].layer.file = upload'.uploads[i].file
                         /\ calls[1].layer = processFile(upload'.uploads[i].file).layer]_vars

\* A file whose processing threw, followed by a file that was processed and
\* handed to onUpload.
C24_Witness ==
    /\ upload.op = "dialog"
    /\ Len(upload.uploads) = 2
    /\ upload.uploads[1].pc = "failed"
    /\ upload.uploads[2].pc = "done"
    /\ Len(upload.onUploadCalls) = 1
    /\ upload.error = Null

\* C30: uploadProgress is between 0 and 100, and is 0 whenever uploading is
\* false.
C30_ProgressRange ==
    upload.op = "dialog" =>
        /\ upload.uploadProgress \in 0..100
        /\ ~upload.uploading => upload.uploadProgress = 0

----------------------------------------------------------------------------
(* Properties of the map initialisation effect                             *)

\* The timers the effect run k has made.
TimersOf(mv, k) == {t \in 1..Len(mv.timers) : mv.timers[t].run = k}

\* C29: while the component stays mounted, mapLoaded eventually becomes
\* true; every effect run makes at most 10 retries, each by a timer of
\* 100 ms, and its initialisation is forced once the 10 retries have failed;
\* a retry timer that is pending when its effect run is cleaned up never
\* fires.
C29_InitTerminates ==
    /\ <>(mapView.mapLoaded \/ mapView.pc = "unmounted")
    /\ [](\A k \in 1..Len(mapView.runs) :
             /\ mapView.runs[k].retryCount <= MAX_RETRIES
             /\ Cardinality(TimersOf(mapView, k)) <= MAX_RETRIES
             /\ mapView.runs[k].retryCount = MAX_RETRIES => mapView.mapLoaded
             /\ \A t \in TimersOf(mapView, k) : mapView.timers[t].delay = 100)
    /\ [][\A t \in 1..Len(mapView.timers) :
             /\ (mapView.timers[t].status = "pending"
                   /\ mapView'.timers[t].status = "fired")
                   => ~mapView.runs[mapView.timers[t].run].cleaned
             /\ mapView.timers[t].status = "cleared"
                   => mapView'.timers[t].status = "cleared"]_vars

\* The initialisation was forced after 10 failed retries of a run that
\* started after an earlier run was cleaned up with its timer pending.
C29_Witness ==
    /\ mapView.op = "view"
    /\ mapView.mapLoaded
    /\ mapView.ref # "map"
    /\ Len(mapView.runs) = 2
    /\ mapView.runs[2].retryCount = MAX_RETRIES
    /\ \E t \in TimersOf(mapView, 1) : mapView.timers[t].status = "cleared"

----------------------------------------------------------------------------
(* Properties of the geometry functions                                    *)

ShapeIndexOps ==
    {"calculateCompactnessRatio", "calculateElongationRatio",
     "calculateCircularity", "calculateFractalDimension",
     "calculateEfficiency", "calculateShapeIndex", "calculateRoundness"}

\* The sum of the areas of the polygons of the call.
RECURSIVE TotalArea(_, _)
TotalArea(polygons, i) ==
    IF i > Len(polygons) THEN Zero
    ELSE Plus(polygons[i].area, TotalArea(polygons, i + 1))

\* C21: calculateAreaWeightedCentroid fails with an error whenever the
\* sequence is empty or the total area of the given polygons is zero, whether
\* one polygon or several are given, and returns a point whose coordinates
\* are finite numbers in every other case.
C21_CentroidErrors ==
    geomCall.op = "calculateAreaWeightedCentroid" =>
        IF Len(geomCall.args) = 0 \/ IsZero(TotalArea(geomCall.args, 1))
        THEN geomCall.result.status = "Error"
        ELSE /\ geomCall.result.status = "ok"
             /\ \A i \in 1..2 : geomCall.result.value.coordinates[i].kind = "finite"

\* C22: every shape index returns 0 for a polygon whose perimeter is zero
\* or whose area is zero.
C22_ZeroForDegenerate ==
    (/\ geomCall.op \in ShapeIndexOps
     /\ IsZero(geomCall.args[1].area) \/ IsZero(geomCall.args[1].perimeter))
        => /\ geomCall.result.status = "ok"
           /\ geomCall.result.value = Zero

====
